---- MODULE Spec2Model ----
(***************************************************************************)
(* BankVec<T, C> (src/src/bankvec.rs), its growth engine                   *)
(* (src/src/bankvec/allocation.rs), the fixed-capacity BankArr<T, C>       *)
(* (src/src/bankarray.rs) and the Drain protocol they share                *)
(* (src/src/drain.rs) as a state machine.  A behaviour exercises one       *)
(* container, a BankVec or a BankArr, chosen at the start.                 *)
(*                                                                         *)
(* Elements are unique identifiers 1, 2, 3, ... handed out in creation     *)
(* order, so that a duplicated, dropped or misplaced element is visible.   *)
(* Memory is modelled slot by slot: a slot keeps its bits after the        *)
(* element was moved out of it (ptr::read does not clear memory).          *)
(***************************************************************************)
EXTENDS Integers, Sequences, FiniteSets, TLC

\* ---------------------------------------------------------------- bounds
MaxC == 2          \* inline capacities C explored: 0..MaxC
MaxElems == 3      \* number of elements ever created in one behaviour
MaxExt == 2        \* longest iterator handed to extend
MaxSwapElems == 4  \* elements created in a behaviour of SpecSwap
MaxExtendC == 4      \* inline capacities C explored by SpecExtend
MaxExtendElems == 7  \* elements created in a behaviour of SpecExtend
MaxExtendItems == 5  \* longest iterator handed to extend in SpecExtend
MaxReserveElems == 2 \* elements created in a behaviour of SpecReserve
MaxEqLen == 2        \* longest array, slice or Vec a bank is compared with
MaxOob == 2          \* how far past len an index handed to SpecBounds may lie
MaxLifeC == 1        \* inline capacities C explored by SpecLife
MaxLifeElems == 2    \* elements created in a behaviour of SpecLife
MaxLifeExt == 1      \* longest iterator handed to extend in SpecLife
MaxLifeReserve == 1  \* largest additional handed to reserve in SpecLife
MaxVecSpare == 1     \* largest spare capacity of a Vec a bank is made from
MaxRangeOob == 1     \* how far past len a bound handed to drain may lie
MaxRangeElems == 2   \* elements created in a behaviour of SpecRange
MaxArrElems == 4     \* elements created in a behaviour of SpecArr
MaxArrExt == 2       \* longest iterator handed to extend in SpecArr
MaxGrowCap == 3      \* largest new_cap handed to try_grow in SpecGrow
MaxGrowAllocs == 2   \* blocks obtained before SpecGrow stops calling try_grow
UsizeBits == 4       \* usize::BITS, scaled down so that overflow is within reach

\* ------------------------------------------------------------- constants
Uninit == 0        \* an uninitialized slot (MaybeUninit::uninit())
None == 0 - 1      \* Option::None as a returned value
SizeOfT == 1       \* size_of::<T>() of the element type, in bytes

\* AllocErr, and the panics infallible and the bounds checks turn into
ErrOverflow == 0 - 3
ErrLayout == 0 - 4
ErrAlloc == 0 - 5
PanicOverflow == 0 - 6      \* "capacity overflow"
PanicLayout == 0 - 7        \* "invalid parameters to Layout::from_size_align"
PanicAlloc == 0 - 8         \* alloc::handle_alloc_error
PanicAssert == 0 - 9        \* assert!(new_cap >= len)
PanicBounds == 0 - 10       \* "index out of bounds"
CloneCrash == 0 - 11        \* the process dies in a write through a dangling pointer
PanicDrop == 0 - 12         \* an element's destructor panicked
PanicRangeOrder == 0 - 13   \* "slice index starts at {start} but ends at {end}"
PanicRangeEnd == 0 - 14     \* "range end index {end} out of range for slice of length {len}"
PanicRangeMax == 0 - 15     \* "attempted to index slice up to maximum usize"
PanicUnreachable == 0 - 16  \* unreachable!(): the start bound is excluded
PanicFull == 0 - 17         \* assert!(self.len < C) of BankArr::push
PanicExceeded == 0 - 18     \* "capacity exceeded during operation `extend`"
RetFalse == 0 - 19          \* false, returned by BankArr::insert
RetTrue == 0 - 20           \* true, returned by BankArr::insert

VARIABLES
    C,          \* the const generic C of BankVec<T, C> / BankArr<T, C>
    kind,       \* which container the behaviour exercises
    bank,       \* the BankVec: capacity field and the BufferUnion
    arr,        \* the BankArr: data and len
    drain,      \* the Drain borrowed from the bank, if any
    nextId,     \* next fresh element
    ref,        \* reference growable sequence driven by the same operations
    last,       \* the last operation: name, arguments, result, bank before it
    undone,     \* the insert that the last operation, a remove at the same index, followed
    spills,     \* number of inline->heap transitions so far
    pushOnly,   \* TRUE while every operation so far was a push
    ledger      \* where every element went, and the global allocator's blocks

vars == <<C, kind, bank, arr, drain, nextId, ref, last, undone, spills, pushOnly, ledger>>

\* ------------------------------------------------------- sequence helpers
Min(a, b) == IF a < b THEN a ELSE b

\* n uninitialized slots
UninitSlots(n) == [k \in 1..n |-> Uninit]

\* s[from0 .. to0) with 0-based bounds, as a sequence
Slice(s, from0, to0) == SubSeq(s, from0 + 1, to0)

\* memmove of n slots inside buffer s from 0-based src to 0-based dst
\* (ptr::copy, overlapping allowed: all sources are read before any write)
CopyWithin(s, src, dst, n) ==
    [k \in 1..Len(s) |->
        IF k - 1 >= dst /\ k - 1 < dst + n THEN s[(k - 1 - dst) + src + 1] ELSE s[k]]

\* usize::next_power_of_two: the smallest power of two >= n (1 for n = 0)
RECURSIVE PowTwoFrom(_, _)
PowTwoFrom(p, n) == IF p >= n THEN p ELSE PowTwoFrom(2 * p, n)
next_power_of_two(n) == PowTwoFrom(1, n)

\* the elements pushed so far when only pushes were made: 1, 2, ..., n
Pushed(n) == [k \in 1..n |-> k]

\* ------------------------------------------------------------ the BankVec
\* BankVec::new: an inline bank, capacity field 0, no slot initialized
new == [capacity |-> 0, stack |-> UninitSlots(C), heap |-> <<>>, heap_len |-> 0]

on_heap(b) == b.capacity > C

len(b) == IF on_heap(b) THEN b.heap_len ELSE b.capacity

\* capacity() as it would be if it returned the raw capacity field
capacity_raw_field(b) == b.capacity

capacity(b) == IF on_heap(b) THEN b.capacity ELSE C

\* data_buf_mut: which buffer the pointer refers to ("heap" / "stack");
\* the length reference is heap.1 for "heap" and the capacity field for "stack"
data_buf_which(b) == IF on_heap(b) THEN "heap" ELSE "stack"
data_buf_cap(b) == IF on_heap(b) THEN b.capacity ELSE C

\* the buffer a pointer of kind w points into
\* ("data" is the data array of a BankArr)
Buf(b, w) ==
    CASE w = "heap" -> b.heap
      [] w = "stack" -> b.stack
      [] OTHER -> b.data
WithBuf(b, w, s) ==
    CASE w = "heap" -> [b EXCEPT !.heap = s]
      [] w = "stack" -> [b EXCEPT !.stack = s]
      [] OTHER -> [b EXCEPT !.data = s]

\* *len through a length reference of kind w
LenAt(b, w) ==
    CASE w = "heap" -> b.heap_len
      [] w = "stack" -> b.capacity
      [] OTHER -> b.len
SetLenAt(b, w, n) ==
    CASE w = "heap" -> [b EXCEPT !.heap_len = n]
      [] w = "stack" -> [b EXCEPT !.capacity = n]
      [] OTHER -> [b EXCEPT !.len = n]

\* ptr.add(idx).write(v)
WriteAt(b, w, idx, v) == WithBuf(b, w, [Buf(b, w) EXCEPT ![idx + 1] = v])

as_slice(b) == Slice(Buf(b, data_buf_which(b)), 0, len(b))

\* ---------------------------------------------------------- growth engine
\* try_grow as it would be if the move to the heap copied one element too few
try_grow_short_copy(b, new_cap) ==
    LET w == data_buf_which(b)
        l == LenAt(b, w)
        cap == data_buf_cap(b)
    IN  IF new_cap <= C
        THEN IF ~on_heap(b)
             THEN b
             ELSE [capacity |-> new_cap,
                   stack |-> Slice(b.heap, 0, l) \o UninitSlots(C - l),
                   heap |-> <<>>,
                   heap_len |-> 0]
        ELSE IF new_cap # cap
             THEN IF ~on_heap(b)
                  THEN [capacity |-> new_cap,
                        stack |-> UninitSlots(C),
                        heap |-> Slice(b.stack, 0, l - 1) \o UninitSlots(new_cap - (l - 1)),
                        heap_len |-> l]
                  ELSE [capacity |-> new_cap,
                        stack |-> b.stack,
                        heap |-> Slice(b.heap, 0, Min(cap, new_cap))
                                    \o UninitSlots(new_cap - Min(cap, new_cap)),
                        heap_len |-> l]
             ELSE b

\* try_grow as it would be if realloc handed back a buffer without the old
\* contents
try_grow_realloc_fresh(b, new_cap) ==
    LET w == data_buf_which(b)
        l == LenAt(b, w)
        cap == data_buf_cap(b)
    IN  IF new_cap <= C
        THEN IF ~on_heap(b)
             THEN b
             ELSE [capacity |-> new_cap,
                   stack |-> Slice(b.heap, 0, l) \o UninitSlots(C - l),
                   heap |-> <<>>,
                   heap_len |-> 0]
        ELSE IF new_cap # cap
             THEN IF ~on_heap(b)
                  THEN [capacity |-> new_cap,
                        stack |-> UninitSlots(C),
                        heap |-> Slice(b.stack, 0, l) \o UninitSlots(new_cap - l),
                        heap_len |-> l]
                  ELSE [capacity |-> new_cap,
                        stack |-> b.stack,
                        heap |-> UninitSlots(new_cap),
                        heap_len |-> l]
             ELSE b

\* try_grow(bank, new_cap); the caller guarantees new_cap >= len (assert!)
try_grow(b, new_cap) ==
    LET w == data_buf_which(b)
        l == LenAt(b, w)
        cap == data_buf_cap(b)
    IN  IF new_cap <= C
        THEN IF ~on_heap(b)
             THEN b
             ELSE \* heap -> inline: fresh stack, copy len elements, free the heap
                  [capacity |-> new_cap,
                   stack |-> Slice(b.heap, 0, l) \o UninitSlots(C - l),
                   heap |-> <<>>,
                   heap_len |-> 0]
        ELSE IF new_cap # cap
             THEN IF ~on_heap(b)
                  THEN \* inline -> heap: alloc(new_cap), copy len elements
                       [capacity |-> new_cap,
                        stack |-> UninitSlots(C),
                        heap |-> Slice(b.stack, 0, l) \o UninitSlots(new_cap - l),
                        heap_len |-> l]
                  ELSE \* heap -> heap: realloc keeps the first min(old, new) slots
                       [capacity |-> new_cap,
                        stack |-> b.stack,
                        heap |-> Slice(b.heap, 0, Min(cap, new_cap))
                                    \o UninitSlots(new_cap - Min(cap, new_cap)),
                        heap_len |-> l]
             ELSE b

\* reserve_one_unchecked: grow to the next power of two >= len + 1
reserve_one_unchecked(b) == try_grow(b, next_power_of_two(len(b) + 1))

\* ------------------------------------------------------- fallible growth
\* usize::MAX and isize::MAX for a usize of UsizeBits bits
USIZE_MAX == 2 ^ UsizeBits - 1
ISIZE_MAX == 2 ^ (UsizeBits - 1) - 1

\* usize::checked_add: None on overflow
checked_add_wrapping(a, b) == (a + b) % (USIZE_MAX + 1)

checked_add(a, b) == IF a + b > USIZE_MAX THEN None ELSE a + b

\* usize::checked_next_power_of_two: None when the power does not fit
checked_next_power_of_two(n) ==
    IF n = None THEN None
    ELSE IF next_power_of_two(n) > USIZE_MAX THEN None ELSE next_power_of_two(n)

\* Layout::array::<T>(n): the size in bytes, or an error above isize::MAX
layout_array(n) == IF n * SizeOfT > ISIZE_MAX THEN ErrLayout ELSE n * SizeOfT

\* try_grow with its failures; alloc_ok tells whether the allocator succeeds.
\* Every error return precedes the first assignment to the bank.
try_grow_result_half_grown(b, new_cap, alloc_ok) ==
    IF new_cap < len(b) THEN [bank |-> b, ret |-> PanicAssert]
    ELSE IF new_cap <= C \/ new_cap = data_buf_cap(b)
    THEN [bank |-> try_grow(b, new_cap), ret |-> None]
    ELSE IF layout_array(new_cap) = ErrLayout THEN [bank |-> b, ret |-> ErrLayout]
    ELSE IF ~alloc_ok THEN [bank |-> [b EXCEPT !.capacity = new_cap], ret |-> ErrAlloc]
    ELSE [bank |-> try_grow(b, new_cap), ret |-> None]

try_grow_result(b, new_cap, alloc_ok) ==
    IF new_cap < len(b) THEN [bank |-> b, ret |-> PanicAssert]
    ELSE IF new_cap <= C \/ new_cap = data_buf_cap(b)
    THEN [bank |-> try_grow(b, new_cap), ret |-> None]
    ELSE IF layout_array(new_cap) = ErrLayout THEN [bank |-> b, ret |-> ErrLayout]
    ELSE IF on_heap(b) /\ layout_array(data_buf_cap(b)) = ErrLayout
    THEN [bank |-> b, ret |-> ErrLayout]
    ELSE IF ~alloc_ok THEN [bank |-> b, ret |-> ErrAlloc]
    ELSE [bank |-> try_grow(b, new_cap), ret |-> None]

\* try_reserve: None stands for Ok(())
try_reserve_any_cap(b, additional, alloc_ok) ==
    IF data_buf_cap(b) - len(b) >= additional THEN [bank |-> b, ret |-> None]
    ELSE LET sum == checked_add(len(b), additional)
         IN  IF sum = None THEN [bank |-> b, ret |-> ErrOverflow]
             ELSE try_grow_result(b, sum + 1, alloc_ok)

try_reserve(b, additional, alloc_ok) ==
    IF data_buf_cap(b) - len(b) >= additional THEN [bank |-> b, ret |-> None]
    ELSE LET new_cap == checked_next_power_of_two(checked_add(len(b), additional))
         IN  IF new_cap = None THEN [bank |-> b, ret |-> ErrOverflow]
             ELSE try_grow_result(b, new_cap, alloc_ok)

try_reserve_exact_doubles(b, additional, alloc_ok) ==
    IF data_buf_cap(b) - len(b) >= additional THEN [bank |-> b, ret |-> None]
    ELSE LET new_cap == checked_add(len(b), additional)
         IN  IF new_cap = None THEN [bank |-> b, ret |-> ErrOverflow]
             ELSE try_grow_result(b, Min(2 * new_cap, USIZE_MAX), alloc_ok)

try_reserve_exact(b, additional, alloc_ok) ==
    IF data_buf_cap(b) - len(b) >= additional THEN [bank |-> b, ret |-> None]
    ELSE LET new_cap == checked_add(len(b), additional)
         IN  IF new_cap = None THEN [bank |-> b, ret |-> ErrOverflow]
             ELSE try_grow_result(b, new_cap, alloc_ok)

\* infallible: Ok passes, every AllocErr panics
infallible(r) ==
    [r EXCEPT !.ret = CASE r.ret = ErrLayout -> PanicLayout
                        [] r.ret = ErrOverflow -> PanicOverflow
                        [] r.ret = ErrAlloc -> PanicAlloc
                        [] OTHER -> r.ret]

\* the capacity reserve_one_unchecked asks for at length l; None makes
\* expect("allocation: capacity overflow") panic
grow_one_target(l) == checked_next_power_of_two(checked_add(l, 1))

reserve(b, additional, alloc_ok) == infallible(try_reserve(b, additional, alloc_ok))

reserve_exact(b, additional, alloc_ok) == infallible(try_reserve_exact(b, additional, alloc_ok))

\* ------------------------------------------------------------- operations
\* Each operation maps a bank to [bank |-> the bank afterwards, ret |-> result].

push(b, value) ==
    LET w0 == data_buf_which(b)
        full == LenAt(b, w0) = data_buf_cap(b)
        b1 == IF full THEN reserve_one_unchecked(b) ELSE b
        w == IF full THEN "heap" ELSE w0
        l == LenAt(b1, w)
    IN  [bank |-> SetLenAt(WriteAt(b1, w, l, value), w, l + 1), ret |-> None]

\* insert as it would be if it shifted one element too few
insert_short_shift(b, index, element) ==
    LET w0 == data_buf_which(b)
        full == LenAt(b, w0) = data_buf_cap(b)
        b1 == IF full THEN reserve_one_unchecked(b) ELSE b
        w == IF full THEN "heap" ELSE w0
        cp_len == LenAt(b1, w)
        shifted == IF index < cp_len
                   THEN WithBuf(b1, w, CopyWithin(Buf(b1, w), index, index + 1, cp_len - index - 1))
                   ELSE b1
    IN  [bank |-> WriteAt(SetLenAt(shifted, w, cp_len + 1), w, index, element),
         ret |-> None]

\* insert with index <= len (the panic for index > len is not taken here)
insert(b, index, element) ==
    LET w0 == data_buf_which(b)
        full == LenAt(b, w0) = data_buf_cap(b)
        b1 == IF full THEN reserve_one_unchecked(b) ELSE b
        w == IF full THEN "heap" ELSE w0
        cp_len == LenAt(b1, w)
        shifted == IF index < cp_len
                   THEN WithBuf(b1, w, CopyWithin(Buf(b1, w), index, index + 1, cp_len - index))
                   ELSE b1
    IN  [bank |-> WriteAt(SetLenAt(shifted, w, cp_len + 1), w, index, element),
         ret |-> None]

\* pop as it would be if it read the first slot instead of the last live one
pop_reads_first(b) ==
    LET w == data_buf_which(b)
        l == LenAt(b, w)
    IN  IF l = 0
        THEN [bank |-> b, ret |-> None]
        ELSE [bank |-> SetLenAt(b, w, l - 1), ret |-> Buf(b, w)[1]]

\* pop as it would be if it moved a spilled bank back inline once it fits
pop_drops_inline(b) ==
    LET w == data_buf_which(b)
        l == LenAt(b, w)
        b1 == SetLenAt(b, w, l - 1)
    IN  IF l = 0
        THEN [bank |-> b, ret |-> None]
        ELSE [bank |-> IF on_heap(b1) /\ l - 1 <= C THEN try_grow(b1, l - 1) ELSE b1,
              ret |-> Buf(b, w)[(l - 1) + 1]]

pop(b) ==
    LET w == data_buf_which(b)
        l == LenAt(b, w)
    IN  IF l = 0
        THEN [bank |-> b, ret |-> None]
        ELSE [bank |-> SetLenAt(b, w, l - 1), ret |-> Buf(b, w)[(l - 1) + 1]]

\* remove as it would be if it shifted one element too few
remove_short_shift(b, index) ==
    LET w == data_buf_which(b)
        l == LenAt(b, w) - 1
        removed == Buf(b, w)[index + 1]
    IN  [bank |-> WithBuf(SetLenAt(b, w, l), w,
                          CopyWithin(Buf(b, w), index + 1, index, l - index - 1)),
         ret |-> removed]

\* remove with index < len
remove(b, index) ==
    LET w == data_buf_which(b)
        l == LenAt(b, w) - 1
        removed == Buf(b, w)[index + 1]
    IN  [bank |-> WithBuf(SetLenAt(b, w, l), w,
                          CopyWithin(Buf(b, w), index + 1, index, l - index)),
         ret |-> removed]

\* swap_remove as it would be without the swap: it hands out the last element
swap_remove_no_swap(b, index) ==
    LET w == data_buf_which(b)
        l == LenAt(b, w) - 1
        s == Buf(b, w)
    IN  [bank |-> SetLenAt(b, w, l), ret |-> s[l + 1]]

\* swap_remove with index < len
swap_remove(b, index) ==
    LET w == data_buf_which(b)
        l == LenAt(b, w) - 1
        s == Buf(b, w)
        swapped == [s EXCEPT ![index + 1] = s[l + 1], ![l + 1] = s[index + 1]]
    IN  [bank |-> WithBuf(SetLenAt(b, w, l), w, swapped), ret |-> swapped[l + 1]]

\* extend: fill the capacity at hand, then push the rest one by one
RECURSIVE PushAll(_, _)
PushAll(b, items) ==
    IF items = <<>> THEN b ELSE PushAll(push(b, Head(items)).bank, Tail(items))

extend_skips_one(b, items) ==
    LET w == data_buf_which(b)
        l == LenAt(b, w)
        cap == data_buf_cap(b)
        n == Min(cap - l, Len(items))
        s == Buf(b, w)
        filled == [k \in 1..Len(s) |->
                      IF k - 1 >= l /\ k - 1 < l + n THEN items[k - l] ELSE s[k]]
        b1 == SetLenAt(WithBuf(b, w, filled), w, l + n)
    IN  [bank |-> PushAll(b1, Slice(items, n + 1, Len(items))), ret |-> None]

extend(b, items) ==
    LET w == data_buf_which(b)
        l == LenAt(b, w)
        cap == data_buf_cap(b)
        n == Min(cap - l, Len(items))    \* items taken by the while loop
        s == Buf(b, w)
        filled == [k \in 1..Len(s) |->
                      IF k - 1 >= l /\ k - 1 < l + n THEN items[k - l] ELSE s[k]]
        b1 == SetLenAt(WithBuf(b, w, filled), w, l + n)
    IN  [bank |-> PushAll(b1, Slice(items, n, Len(items))), ret |-> None]

\* insert, remove and swap_remove with their bounds checks, and bank[index].
\* insert grows a full bank before it looks at the index.
insert_checked(b, index, element) ==
    LET full == len(b) = data_buf_cap(b)
        b1 == IF full THEN reserve_one_unchecked(b) ELSE b
    IN  IF index > len(b1)
        THEN [bank |-> b1, ret |-> PanicBounds]
        ELSE insert(b, index, element)

remove_clamps(b, index) ==
    IF len(b) = 0 THEN [bank |-> b, ret |-> PanicBounds]
    ELSE remove(b, Min(index, len(b) - 1))

remove_checked(b, index) ==
    IF ~(index < len(b)) THEN [bank |-> b, ret |-> PanicBounds] ELSE remove(b, index)

swap_remove_checked(b, index) ==
    IF ~(index < len(b)) THEN [bank |-> b, ret |-> PanicBounds] ELSE swap_remove(b, index)

index_checked(b, index) ==
    [bank |-> b,
     ret |-> IF index >= Len(as_slice(b)) THEN PanicBounds ELSE as_slice(b)[index + 1]]

\* slice equality: same length and equal elements, index by index
slice_eq(s, t) ==
    /\ Len(s) = Len(t)
    /\ \A k \in 1..Min(Len(s), Len(t)) : s[k] = t[k]

\* PartialEq for BankVec against a BankVec, and against an array, slice or Vec
eq_bank_whole_buffer(a, b) ==
    slice_eq(Buf(a, data_buf_which(a)), Buf(b, data_buf_which(b)))

eq_bank(a, b) == slice_eq(as_slice(a), as_slice(b))

eq_slice(b, other) == len(b) = Len(other) /\ slice_eq(as_slice(b), other)

\* Clone::clone.  A heap bank is cloned into a bank that starts inline and
\* empty (capacity 0, buffer (dangling, 0)) and is grown with reserve(len);
\* when len <= C the reserve does nothing and the elements are copied to the
\* dangling pointer: undefined behaviour for len > 0, which either kills the
\* process (ub_crashes) or passes unnoticed.
clone(b, ub_crashes) ==
    IF on_heap(b)
    THEN LET l == b.heap_len
             r == reserve([capacity |-> 0, stack |-> UninitSlots(C),
                           heap |-> <<>>, heap_len |-> 0], l, TRUE)
             cloned == r.bank
         IN  IF r.ret # None THEN r
             ELSE IF on_heap(cloned)
             THEN [bank |-> [cloned EXCEPT
                               !.heap = Slice(b.heap, 0, l) \o Slice(cloned.heap, l, Len(cloned.heap)),
                               !.heap_len = l],
                   ret |-> None]
             ELSE IF l > 0 /\ ub_crashes
             THEN [bank |-> cloned, ret |-> CloneCrash]
             ELSE [bank |-> [cloned EXCEPT !.heap_len = l], ret |-> None]
    ELSE LET l == b.capacity
         IN  [bank |-> [capacity |-> l,
                        stack |-> Slice(b.stack, 0, l) \o UninitSlots(C - l),
                        heap |-> <<>>, heap_len |-> 0],
              ret |-> None]

\* the number of inline -> heap transitions made by the pushes of PushAll
RECURSIVE PushAllSpills(_, _)
PushAllSpills(b, items) ==
    IF items = <<>> THEN 0
    ELSE LET b1 == push(b, Head(items)).bank
         IN  (IF ~on_heap(b) /\ on_heap(b1) THEN 1 ELSE 0) + PushAllSpills(b1, Tail(items))

\* the number of inline -> heap transitions during one call of extend: the
\* while loop writes into the current buffer, only the pushes can grow
extend_spills(b, items) ==
    LET n == Min(data_buf_cap(b) - len(b), Len(items))
        b1 == extend(b, Slice(items, 0, n)).bank
    IN  PushAllSpills(b1, Slice(items, n, Len(items)))

\* ------------------------------------------------------------ the BankArr
\* BankArr::new: no slot initialized, len 0
arr_new == [data |-> UninitSlots(C), len |-> 0]

arr_len(a) == a.len

arr_as_slice(a) == Slice(a.data, 0, a.len)

\* push_unchecked, called by push (len < C asserted) and try_push
arr_push_unchecked(a, value) ==
    [a EXCEPT !.data = [a.data EXCEPT ![a.len + 1] = value], !.len = a.len + 1]

\* Err(BankFullError), the result of try_push on a full BankArr
BankFullError == 0 - 2

\* try_push: None stands for Ok(())
arr_try_push(a, value) ==
    IF a.len = C
    THEN [bank |-> a, ret |-> BankFullError]
    ELSE [bank |-> arr_push_unchecked(a, value), ret |-> None]

\* push: a full bank fails the assert
arr_push(a, value) ==
    IF ~(a.len < C)
    THEN [bank |-> a, ret |-> PanicFull]
    ELSE [bank |-> arr_push_unchecked(a, value), ret |-> None]

\* insert as it would be if a full bank made room by dropping its last element
arr_insert_drops_last(a, index, element) ==
    IF ~(index <= a.len) THEN [bank |-> a, ret |-> PanicBounds]
    ELSE IF a.len = C
    THEN IF index = C THEN [bank |-> a, ret |-> RetFalse]
         ELSE [bank |-> [a EXCEPT !.data = [CopyWithin(a.data, index, index + 1,
                                                       a.len - index - 1)
                                               EXCEPT ![index + 1] = element]],
               ret |-> RetTrue]
    ELSE [bank |-> [data |-> [CopyWithin(a.data, index, index + 1, a.len - index)
                                 EXCEPT ![index + 1] = element],
                    len |-> a.len + 1],
          ret |-> RetTrue]

\* insert: the bounds assert, then false on a full bank, else shift and write
arr_insert(a, index, element) ==
    IF ~(index <= a.len) THEN [bank |-> a, ret |-> PanicBounds]
    ELSE IF a.len = C THEN [bank |-> a, ret |-> RetFalse]
    ELSE [bank |-> [data |-> [CopyWithin(a.data, index, index + 1, a.len - index)
                                 EXCEPT ![index + 1] = element],
                    len |-> a.len + 1],
          ret |-> RetTrue]

\* Extend::extend: the items are written one by one, the first that finds the
\* bank full panics
arr_extend(a, items) ==
    LET n == Min(C - a.len, Len(items))
    IN  [bank |-> [data |-> [k \in 1..C |->
                                IF k - 1 >= a.len /\ k - 1 < a.len + n
                                THEN items[k - a.len] ELSE a.data[k]],
                   len |-> a.len + n],
         ret |-> IF Len(items) > n THEN PanicExceeded ELSE None]

arr_pop(a) ==
    IF a.len = 0
    THEN [bank |-> a, ret |-> None]
    ELSE [bank |-> [a EXCEPT !.len = a.len - 1], ret |-> a.data[(a.len - 1) + 1]]

\* ------------------------------------------------------------------ Drain
\* Drainable::drain_parts: the pointer and the length reference of a container
drain_parts(b) == IF "data" \in DOMAIN b THEN "data" ELSE data_buf_which(b)

\* slice_range on a valid range is the range itself; BankVec::drain truncates
\* the length to start and remembers the tail [end, old_len)
NoDrain ==
    [state |-> "none", ptr |-> "stack", tail_start |-> 0, tail_len |-> 0,
     front |-> 0, back |-> 0,
     S |-> <<>>, R |-> <<>>, start |-> 0, end |-> 0,
     yielded_front |-> <<>>, yielded_back |-> <<>>, destroyed |-> <<>>]

\* drain as it would be if it left the length alone until the Drain is dropped
drain_new_keeps_len(b, start, end) ==
    LET w == data_buf_which(b)
        cp_len == LenAt(b, w)
    IN  [bank |-> b,
         drain |-> [state |-> "active", ptr |-> w,
                    tail_start |-> end, tail_len |-> cp_len - end,
                    front |-> start, back |-> end,
                    S |-> as_slice(b), R |-> <<>>, start |-> start, end |-> end,
                    yielded_front |-> <<>>, yielded_back |-> <<>>, destroyed |-> <<>>]]

\* the Drain built by BankVec::drain(start..end); S, start, end record the drained
\* bank, R the reference sequence at that moment (set by the action), yielded_front / yielded_back what next / next_back handed out, in
\* order, and destroyed what Drop for Drain destroyed
drain_new(b, start, end) ==
    LET w == data_buf_which(b)
        cp_len == LenAt(b, w)
    IN  [bank |-> SetLenAt(b, w, start),
         drain |-> [state |-> "active", ptr |-> w,
                    tail_start |-> end, tail_len |-> cp_len - end,
                    front |-> start, back |-> end,
                    S |-> as_slice(b), R |-> <<>>, start |-> start, end |-> end,
                    yielded_front |-> <<>>, yielded_back |-> <<>>, destroyed |-> <<>>]]

\* the Drain built by BankArr::drain(start..end)
arr_drain_new(a, start, end) ==
    [bank |-> [a EXCEPT !.len = start],
     drain |-> [state |-> "active", ptr |-> "data",
                tail_start |-> end, tail_len |-> a.len - end,
                front |-> start, back |-> end,
                S |-> arr_as_slice(a), R |-> <<>>, start |-> start, end |-> end,
                yielded_front |-> <<>>, yielded_back |-> <<>>, destroyed |-> <<>>]]

\* the bounds of a RangeBounds<usize>
Included(n) == [kind |-> "Included", at |-> n]
Excluded(n) == [kind |-> "Excluded", at |-> n]
Unbounded == [kind |-> "Unbounded", at |-> 0]

\* slice_range as it would be if it took an included end for an excluded one
slice_range_end_not_bumped(sb, eb, length) ==
    LET start == IF sb.kind = "Included" THEN sb.at ELSE 0
        end == IF eb.kind = "Unbounded" THEN length ELSE eb.at
    IN  CASE sb.kind = "Excluded" -> [start |-> 0, end |-> 0, ret |-> PanicUnreachable]
          [] start > end -> [start |-> start, end |-> end, ret |-> PanicRangeOrder]
          [] end > length -> [start |-> start, end |-> end, ret |-> PanicRangeEnd]
          [] OTHER -> [start |-> start, end |-> end, ret |-> None]

\* slice_range(range, ..length): the range start..end, or the panic
slice_range(sb, eb, length) ==
    LET start == IF sb.kind = "Included" THEN sb.at ELSE 0
        end == CASE eb.kind = "Included" -> checked_add(eb.at, 1)
                 [] eb.kind = "Excluded" -> eb.at
                 [] OTHER -> length
    IN  CASE sb.kind = "Excluded" -> [start |-> 0, end |-> 0, ret |-> PanicUnreachable]
          [] end = None -> [start |-> start, end |-> 0, ret |-> PanicRangeMax]
          [] start > end -> [start |-> start, end |-> end, ret |-> PanicRangeOrder]
          [] end > length -> [start |-> start, end |-> end, ret |-> PanicRangeEnd]
          [] OTHER -> [start |-> start, end |-> end, ret |-> None]

\* BankVec::drain(range): slice_range comes before the length is touched
drain_checked(b, sb, eb) ==
    LET r == slice_range(sb, eb, len(b))
    IN  IF r.ret # None
        THEN [bank |-> b, drain |-> NoDrain, ret |-> r.ret]
        ELSE [bank |-> drain_new(b, r.start, r.end).bank,
              drain |-> drain_new(b, r.start, r.end).drain, ret |-> None]

\* ExactSizeIterator::len of the Drain
drain_len(d) == d.back - d.front

\* Iterator::next: slice::Iter::next, then ptr_copy
drain_next(b, d) ==
    IF d.front = d.back
    THEN [drain |-> d, ret |-> None]
    ELSE LET x == Buf(b, d.ptr)[d.front + 1]
         IN  [drain |-> [d EXCEPT !.front = d.front + 1,
                                  !.yielded_front = Append(d.yielded_front, x)],
              ret |-> x]

\* next_back as it would be if it took from the front of the range
drain_next_back_from_front(b, d) ==
    IF d.front = d.back
    THEN [drain |-> d, ret |-> None]
    ELSE LET x == Buf(b, d.ptr)[d.front + 1]
         IN  [drain |-> [d EXCEPT !.front = d.front + 1,
                                  !.yielded_back = Append(d.yielded_back, x)],
              ret |-> x]

\* DoubleEndedIterator::next_back
drain_next_back(b, d) ==
    IF d.front = d.back
    THEN [drain |-> d, ret |-> None]
    ELSE LET x == Buf(b, d.ptr)[(d.back - 1) + 1]
         IN  [drain |-> [d EXCEPT !.back = d.back - 1,
                                  !.yielded_back = Append(d.yielded_back, x)],
              ret |-> x]

\* Drop for Drain as it would be if it only restored the length and left the
\* tail where it was
drain_drop_no_move(b, d) ==
    LET rest == Slice(Buf(b, d.ptr), d.front, d.back)
        w == drain_parts(b)
        start == LenAt(b, w)
    IN  [bank |-> IF d.tail_len > 0 THEN SetLenAt(b, w, start + d.tail_len) ELSE b,
         drain |-> [d EXCEPT !.state = "dropped", !.front = d.back,
                             !.destroyed = d.destroyed \o rest]]

\* Drop for Drain as it would be if it destroyed the whole range, the elements
\* already yielded included
drain_drop_whole_range(b, d) ==
    LET rest == Slice(Buf(b, d.ptr), d.start, d.end)
        w == drain_parts(b)
        start == LenAt(b, w)
        tail == d.tail_start
        moved == IF tail # start
                 THEN WithBuf(b, w, CopyWithin(Buf(b, w), tail, start, d.tail_len))
                 ELSE b
    IN  [bank |-> IF d.tail_len > 0 THEN SetLenAt(moved, w, start + d.tail_len) ELSE b,
         drain |-> [d EXCEPT !.state = "dropped", !.front = d.back,
                             !.destroyed = d.destroyed \o rest]]

\* Drop for Drain as it would be if it moved the tail down without destroying
\* the elements that were not yielded
drain_drop_forgets_rest(b, d) ==
    LET w == drain_parts(b)
        start == LenAt(b, w)
        tail == d.tail_start
        moved == IF tail # start
                 THEN WithBuf(b, w, CopyWithin(Buf(b, w), tail, start, d.tail_len))
                 ELSE b
    IN  [bank |-> IF d.tail_len > 0 THEN SetLenAt(moved, w, start + d.tail_len) ELSE b,
         drain |-> [d EXCEPT !.state = "dropped", !.front = d.back]]

\* Drop for Drain: destroy what was not yielded, then move the tail down
drain_drop(b, d) ==
    LET rest == Slice(Buf(b, d.ptr), d.front, d.back)
        w == drain_parts(b)
        start == LenAt(b, w)
        tail == d.tail_start
        moved == IF tail # start
                 THEN WithBuf(b, w, CopyWithin(Buf(b, w), tail, start, d.tail_len))
                 ELSE b
    IN  [bank |-> IF d.tail_len > 0 THEN SetLenAt(moved, w, start + d.tail_len) ELSE b,
         drain |-> [d EXCEPT !.state = "dropped", !.front = d.back,
                             !.destroyed = d.destroyed \o rest]]

\* Drop for Drain when the destructor of the k-th element it still holds
\* panics: for_each(drop) has destroyed k elements and unwinds out of drop, so
\* the tail is not moved and the length stays where drain() left it; Drain has
\* no field that destroys the elements left in iter
drain_drop_unwinds(b, d, k) ==
    [bank |-> b,
     drain |-> [d EXCEPT !.state = "unwound", !.front = d.front + k,
                         !.destroyed = @ \o Slice(Buf(b, d.ptr), d.front, d.front + k)]]

\* ----------------------------------------------------------------- ledger
\* A record kept beside the program: handed are the elements returned to the
\* caller, destroyed the elements whose destructor ran, both in order; live
\* are the blocks of the global allocator, each with the capacity it was
\* obtained with; ptr is the block buf.heap.0 points to (0: none); nalloc
\* counts the blocks handed out; faults counts the allocator calls made with a
\* pointer that is not live or a capacity other than the block's; dropped
\* tells that the bank was dropped; leaked are the elements of a Drain that
\* was forgotten or whose cleanup unwound.
NoLedger ==
    [handed |-> <<>>, destroyed |-> <<>>, live |-> <<>>, ptr |-> 0, nalloc |-> 0,
     faults |-> 0, dropped |-> FALSE, leaked |-> <<>>]

\* is block id live, and with capacity cap
IsLive(L, id, cap) == \E k \in 1..Len(L.live) : L.live[k] = [id |-> id, cap |-> cap]

\* the live blocks but block id
WithoutBlock(L, id) == SelectSeq(L.live, LAMBDA blk : blk.id # id)

\* alloc(Layout::array::<T>(cap)): a fresh block, which the bank points to
alloc(L, cap) ==
    [L EXCEPT !.live = Append(@, [id |-> L.nalloc + 1, cap |-> cap]),
              !.nalloc = @ + 1, !.ptr = L.nalloc + 1]

\* dealloc(ptr, Layout::array::<T>(cap))
dealloc(L, id, cap) ==
    [L EXCEPT !.live = WithoutBlock(L, id),
              !.faults = @ + (IF IsLive(L, id, cap) THEN 0 ELSE 1)]

\* realloc(ptr, Layout::array::<T>(cap), new size): the old block is gone
realloc(L, id, cap, new_cap) == alloc(dealloc(L, id, cap), new_cap)

\* an element returned to the caller (None: nothing was returned)
Hand(L, x) == IF x = None THEN L ELSE [L EXCEPT !.handed = Append(@, x)]

\* the allocator calls of try_grow(bank, new_cap) on its way to Ok(())
try_grow_allocs(b, new_cap, L) ==
    LET cap == data_buf_cap(b)
    IN  IF new_cap <= C
        THEN IF ~on_heap(b) THEN L
             ELSE [dealloc(L, L.ptr, cap) EXCEPT !.ptr = 0]
        ELSE IF new_cap # cap
             THEN IF ~on_heap(b) THEN alloc(L, new_cap)
                  ELSE realloc(L, L.ptr, cap, new_cap)
             ELSE L

\* the allocator calls of push and of insert: those of reserve_one_unchecked
\* when the bank is at capacity
push_allocs(b, L) ==
    IF len(b) = data_buf_cap(b)
    THEN try_grow_allocs(b, next_power_of_two(len(b) + 1), L)
    ELSE L

\* the allocator calls of extend: those of the pushes after the while loop
RECURSIVE PushAllAllocs(_, _, _)
PushAllAllocs(b, items, L) ==
    IF items = <<>> THEN L
    ELSE PushAllAllocs(push(b, Head(items)).bank, Tail(items), push_allocs(b, L))

extend_allocs(b, items, L) ==
    LET n == Min(data_buf_cap(b) - len(b), Len(items))
        b1 == extend(b, Slice(items, 0, n)).bank
    IN  PushAllAllocs(b1, Slice(items, n, Len(items)), L)

\* the allocator calls of reserve and reserve_exact that return
reserve_allocs(b, additional, L) ==
    IF data_buf_cap(b) - len(b) >= additional THEN L
    ELSE try_grow_allocs(b, next_power_of_two(len(b) + additional), L)

reserve_exact_allocs(b, additional, L) ==
    IF data_buf_cap(b) - len(b) >= additional THEN L
    ELSE try_grow_allocs(b, len(b) + additional, L)

\* ----------------------------------------------------- construction, drop
\* BankVec::from([T; N]): the array is wrapped in ManuallyDrop and its N
\* elements are copied into the inline buffer, or into a bank that starts with
\* capacity 0 and is grown by reserve(N)
from_array(items) ==
    LET N == Len(items)
        bank0 == [capacity |-> 0, stack |-> UninitSlots(C), heap |-> <<>>, heap_len |-> 0]
        r == reserve(bank0, N, TRUE)
    IN  IF N <= C
        THEN [bank |-> [capacity |-> N, stack |-> items \o UninitSlots(C - N),
                        heap |-> <<>>, heap_len |-> 0],
              ledger |-> NoLedger, ret |-> None]
        ELSE IF r.ret # None THEN [bank |-> r.bank, ledger |-> NoLedger, ret |-> r.ret]
        ELSE [bank |-> [r.bank EXCEPT
                          !.heap = items \o Slice(r.bank.heap, N, Len(r.bank.heap)),
                          !.heap_len = N],
              ledger |-> reserve_allocs(bank0, N, NoLedger), ret |-> None]

\* the allocator with the buffer of a Vec of capacity vcap in it (block 1)
VecLedger(vcap) == IF vcap > 0 THEN alloc(NoLedger, vcap) ELSE NoLedger

\* from_vec as it would be if it took the length for the capacity of the
\* buffer it adopts
from_vec_len_as_cap(items, vcap) ==
    LET l == Len(items)
        L0 == VecLedger(vcap)
    IN  IF l <= C
        THEN [bank |-> [capacity |-> l, stack |-> items \o UninitSlots(C - l),
                        heap |-> <<>>, heap_len |-> 0],
              ledger |-> IF vcap > 0 THEN [dealloc(L0, L0.ptr, vcap) EXCEPT !.ptr = 0] ELSE L0,
              ret |-> None]
        ELSE [bank |-> [capacity |-> l, stack |-> UninitSlots(C),
                        heap |-> items, heap_len |-> l],
              ledger |-> L0, ret |-> None]

\* from_vec as it would be if it chose the mode by the capacity of the Vec
from_vec_by_capacity(items, vcap) ==
    LET l == Len(items)
        L0 == VecLedger(vcap)
    IN  IF vcap <= C
        THEN [bank |-> [capacity |-> l, stack |-> items \o UninitSlots(C - l),
                        heap |-> <<>>, heap_len |-> 0],
              ledger |-> IF vcap > 0 THEN [dealloc(L0, L0.ptr, vcap) EXCEPT !.ptr = 0] ELSE L0,
              ret |-> None]
        ELSE [bank |-> [capacity |-> vcap, stack |-> UninitSlots(C),
                        heap |-> items \o UninitSlots(vcap - l), heap_len |-> l],
              ledger |-> L0, ret |-> None]

\* BankVec::from(Vec<T>) of a Vec with capacity vcap >= len: up to C elements
\* are copied out of the Vec, which is emptied (set_len(0)) and frees its
\* buffer when it goes out of scope; a longer Vec is forgotten and its buffer
\* adopted with the Vec's capacity
from_vec(items, vcap) ==
    LET l == Len(items)
        L0 == VecLedger(vcap)
    IN  IF l <= C
        THEN [bank |-> [capacity |-> l, stack |-> items \o UninitSlots(C - l),
                        heap |-> <<>>, heap_len |-> 0],
              ledger |-> IF vcap > 0 THEN [dealloc(L0, L0.ptr, vcap) EXCEPT !.ptr = 0] ELSE L0,
              ret |-> None]
        ELSE [bank |-> [capacity |-> vcap, stack |-> UninitSlots(C),
                        heap |-> items \o UninitSlots(vcap - l), heap_len |-> l],
              ledger |-> L0, ret |-> None]

\* Drop for BankVec as it would be if it destroyed the elements of a heap
\* bank and kept the allocation
drop_keeps_heap(b, L) ==
    IF on_heap(b)
    THEN [L EXCEPT !.destroyed = @ \o Slice(b.heap, 0, b.heap_len), !.dropped = TRUE]
    ELSE [L EXCEPT !.destroyed = @ \o as_slice(b), !.dropped = TRUE]

\* Drop for BankVec: a heap bank is dropped as Vec::from_raw_parts(ptr, len,
\* capacity), which destroys len elements and frees the buffer with the
\* capacity field; an inline bank is dropped in place as the slice self[..]
drop(b, L) ==
    IF on_heap(b)
    THEN [dealloc([L EXCEPT !.destroyed = @ \o Slice(b.heap, 0, b.heap_len)],
                  L.ptr, b.capacity)
             EXCEPT !.ptr = 0, !.dropped = TRUE]
    ELSE [L EXCEPT !.destroyed = @ \o as_slice(b), !.dropped = TRUE]

\* ------------------------------------------------------ reference sequence
RefInsert(s, i, v) == Slice(s, 0, i) \o <<v>> \o Slice(s, i, Len(s))
RefRemove(s, i) == Slice(s, 0, i) \o Slice(s, i + 1, Len(s))
RefSwapRemove(s, i) ==
    IF i = Len(s) - 1 THEN Slice(s, 0, i)
    ELSE Slice(s, 0, i) \o <<s[Len(s)]>> \o Slice(s, i + 1, Len(s) - 1)

\* ---------------------------------------------------------------- actions
NoOp == [op |-> "new", i |-> 0, j |-> 0, v |-> None, ret |-> None, refret |-> None,
         pre |-> <<>>, preHeap |-> FALSE, preCap |-> 0]

InitWith(maxC) ==
    /\ C \in 0..maxC
    /\ kind \in {"BankVec", "BankArr"}
    /\ bank = new
    /\ arr = arr_new
    /\ drain = NoDrain
    /\ nextId = 1
    /\ ref = <<>>
    /\ last = NoOp
    /\ undone = NoOp
    /\ spills = 0
    /\ pushOnly = TRUE
    /\ ledger = NoLedger

Init == InitWith(MaxC)

Borrowed == drain.state = "active"

\* the container the behaviour exercises, and what it exposes
Container == IF kind = "BankArr" THEN arr ELSE bank
Live == IF kind = "BankArr" THEN arr_as_slice(arr) ELSE as_slice(bank)
LiveLen == IF kind = "BankArr" THEN arr_len(arr) ELSE len(bank)

\* bookkeeping shared by the operations called on the bank itself
Step(op, i, j, v, r, newref, refret) ==
    /\ kind = "BankVec"
    /\ bank' = r.bank
    /\ last' = [op |-> op, i |-> i, j |-> j, v |-> v, ret |-> r.ret, refret |-> refret,
                pre |-> as_slice(bank), preHeap |-> on_heap(bank), preCap |-> capacity(bank)]
    /\ undone' = (IF op = "remove" /\ last.op = "insert" /\ last.i = i THEN last ELSE NoOp)
    /\ ref' = newref
    /\ spills' = spills + (IF ~on_heap(bank) /\ on_heap(r.bank) THEN 1 ELSE 0)
    /\ pushOnly' = (pushOnly /\ op = "push")
    /\ drain' = NoDrain
    /\ UNCHANGED <<C, kind, arr, ledger>>

\* push of a fresh element while fewer than bound elements were created
PushWithin(bound) ==
    /\ ~Borrowed
    /\ nextId <= bound
    /\ Step("push", 0, 0, nextId, push(bank, nextId), Append(ref, nextId), None)
    /\ nextId' = nextId + 1

Push == PushWithin(MaxElems)

Insert ==
    /\ ~Borrowed
    /\ nextId <= MaxElems
    /\ \E index \in 0..len(bank) :
          Step("insert", index, 0, nextId, insert(bank, index, nextId),
               RefInsert(ref, index, nextId), None)
    /\ nextId' = nextId + 1

Pop ==
    /\ ~Borrowed
    /\ Step("pop", 0, 0, None, pop(bank),
            IF ref = <<>> THEN ref ELSE Slice(ref, 0, Len(ref) - 1),
            IF ref = <<>> THEN None ELSE ref[Len(ref)])
    /\ UNCHANGED nextId

Remove ==
    /\ ~Borrowed
    /\ \E index \in 0..(len(bank) - 1) :
          Step("remove", index, 0, None, remove(bank, index),
               RefRemove(ref, index), ref[index + 1])
    /\ UNCHANGED nextId

SwapRemove ==
    /\ ~Borrowed
    /\ \E index \in 0..(len(bank) - 1) :
          Step("swap_remove", index, 0, None, swap_remove(bank, index),
               RefSwapRemove(ref, index), ref[index + 1])
    /\ UNCHANGED nextId

\* extend with an iterator of at most maxItems fresh elements; last.j is the
\* number of inline -> heap transitions made during the call
ExtendWithin(maxElems, maxItems) ==
    /\ ~Borrowed
    /\ \E n \in 0..maxItems :
          /\ nextId + n - 1 <= maxElems
          /\ LET items == [k \in 1..n |-> nextId + k - 1]
             IN  Step("extend", n, extend_spills(bank, items), None, extend(bank, items),
                      ref \o items, None)
          /\ nextId' = nextId + n

Extend == ExtendWithin(MaxElems, MaxExt)

\* bookkeeping shared by the operations called on a BankArr
ArrStep(op, v, r, newref, refret) ==
    /\ kind = "BankArr"
    /\ ~Borrowed
    /\ arr' = r.bank
    /\ last' = [op |-> op, i |-> 0, j |-> 0, v |-> v, ret |-> r.ret, refret |-> refret,
                pre |-> arr_as_slice(arr), preHeap |-> FALSE, preCap |-> C]
    /\ undone' = NoOp
    /\ ref' = newref
    /\ pushOnly' = FALSE
    /\ drain' = NoDrain
    /\ UNCHANGED <<C, kind, bank, spills, ledger>>

\* BankArr::push on a bank that is not full (a full bank fails the assert)
ArrPush ==
    /\ nextId <= MaxElems
    /\ arr_len(arr) < C
    /\ ArrStep("arr_push", nextId, [bank |-> arr_push_unchecked(arr, nextId), ret |-> None],
               Append(ref, nextId), None)
    /\ nextId' = nextId + 1

ArrTryPush ==
    /\ nextId <= MaxElems
    /\ LET r == arr_try_push(arr, nextId)
       IN  ArrStep("arr_try_push", nextId, r,
                   IF r.ret = None THEN Append(ref, nextId) ELSE ref, None)
    /\ nextId' = nextId + 1

ArrPop ==
    /\ ArrStep("arr_pop", None, arr_pop(arr),
               IF ref = <<>> THEN ref ELSE Slice(ref, 0, Len(ref) - 1),
               IF ref = <<>> THEN None ELSE ref[Len(ref)])
    /\ UNCHANGED nextId

\* bookkeeping of the BankArr operations that may find the bank full;
\* last.preArr is the bank before the call
ArrStepAt(op, i, v, r, newref) ==
    /\ kind = "BankArr"
    /\ ~Borrowed
    /\ arr' = r.bank
    /\ last' = [op |-> op, i |-> i, j |-> 0, v |-> v, ret |-> r.ret, refret |-> None,
                pre |-> arr_as_slice(arr), preHeap |-> FALSE, preCap |-> C, preArr |-> arr]
    /\ undone' = NoOp
    /\ ref' = newref
    /\ pushOnly' = FALSE
    /\ drain' = NoDrain
    /\ UNCHANGED <<C, kind, bank, spills, ledger>>

ArrPushAny ==
    /\ nextId <= MaxArrElems
    /\ LET r == arr_push(arr, nextId)
       IN  ArrStepAt("arr_push", 0, nextId, r, IF r.ret = None THEN Append(ref, nextId) ELSE ref)
    /\ nextId' = nextId + 1

ArrTryPushAny ==
    /\ nextId <= MaxArrElems
    /\ LET r == arr_try_push(arr, nextId)
       IN  ArrStepAt("arr_try_push", 0, nextId, r,
                     IF r.ret = None THEN Append(ref, nextId) ELSE ref)
    /\ nextId' = nextId + 1

ArrInsertAny ==
    /\ nextId <= MaxArrElems
    /\ \E index \in 0..(arr_len(arr) + 1) :
          LET r == arr_insert(arr, index, nextId)
          IN  ArrStepAt("arr_insert", index, nextId, r,
                        IF r.ret = RetTrue THEN RefInsert(ref, index, nextId) ELSE ref)
    /\ nextId' = nextId + 1

ArrExtendAny ==
    /\ \E n \in 1..MaxArrExt :
          /\ nextId + n - 1 <= MaxArrElems
          /\ LET items == [k \in 1..n |-> nextId + k - 1]
                 r == arr_extend(arr, items)
             IN  ArrStepAt("arr_extend", n, None, r,
                           ref \o Slice(items, 0, arr_len(r.bank) - arr_len(arr)))
          /\ nextId' = nextId + n

\* bookkeeping shared by the Drain operations; for next / next_back, i is the
\* number of elements the Drain had yielded before the call
DrainStep(op, i, j, r, newref) ==
    /\ IF kind = "BankArr"
       THEN arr' = r.bank /\ UNCHANGED bank
       ELSE bank' = r.bank /\ UNCHANGED arr
    /\ drain' = r.drain
    /\ last' = [op |-> op, i |-> i, j |-> j, v |-> None, ret |-> r.ret, refret |-> None,
                pre |-> Live, preHeap |-> on_heap(bank), preCap |-> capacity(bank)]
    /\ undone' = NoOp
    /\ ref' = newref
    /\ pushOnly' = FALSE
    /\ UNCHANGED <<C, kind, nextId, spills, ledger>>

Drain ==
    /\ ~Borrowed
    /\ \E start \in 0..LiveLen : \E end \in start..LiveLen :
          LET r == IF kind = "BankArr" THEN arr_drain_new(arr, start, end)
                   ELSE drain_new(bank, start, end)
          IN  DrainStep("drain", start, end,
                        [bank |-> r.bank, drain |-> [r.drain EXCEPT !.R = ref], ret |-> None],
                        Slice(ref, 0, start))

DrainNext ==
    /\ Borrowed
    /\ LET r == drain_next(Container, drain)
       IN  DrainStep("next", Len(drain.yielded_front) + Len(drain.yielded_back), 0,
                     [bank |-> Container, drain |-> r.drain, ret |-> r.ret], ref)

DrainNextBack ==
    /\ Borrowed
    /\ LET r == drain_next_back(Container, drain)
       IN  DrainStep("next_back", Len(drain.yielded_front) + Len(drain.yielded_back), 0,
                     [bank |-> Container, drain |-> r.drain, ret |-> r.ret], ref)

DrainDrop ==
    /\ Borrowed
    /\ LET r == drain_drop(Container, drain)
       IN  DrainStep("drain_drop", 0, 0, [bank |-> r.bank, drain |-> r.drain, ret |-> None],
                     ref \o Slice(drain.R, drain.end, Len(drain.R)))

\* mem::forget(drain): the borrow ends, Drop for Drain never runs
DrainForget ==
    /\ Borrowed
    /\ DrainStep("drain_forget", 0, 0,
                 [bank |-> Container, drain |-> [drain EXCEPT !.state = "leaked"], ret |-> None],
                 ref)

Next ==
    \/ Push
    \/ Insert
    \/ Pop
    \/ Remove
    \/ SwapRemove
    \/ Extend
    \/ ArrPush
    \/ ArrTryPush
    \/ ArrPop
    \/ Drain
    \/ DrainNext
    \/ DrainNextBack
    \/ DrainDrop
    \/ DrainForget

Spec == Init /\ [][Next]_vars

\* BankVec under push, pop and swap_remove only, with longer banks
PushSwap == PushWithin(MaxSwapElems)

InitSwap == Init /\ kind = "BankVec"

NextSwap ==
    \/ PushSwap
    \/ Pop
    \/ SwapRemove

SpecSwap == InitSwap /\ [][NextSwap]_vars

\* BankVec under push, pop and extend, with larger C and longer iterators
PushExtend == PushWithin(MaxExtendElems)

ExtendLong == ExtendWithin(MaxExtendElems, MaxExtendItems)

InitExtend == InitWith(MaxExtendC) /\ kind = "BankVec"

NextExtend ==
    \/ PushExtend
    \/ Pop
    \/ ExtendLong

SpecExtend == InitExtend /\ [][NextExtend]_vars

\* BankVec under push and the reserve family, with a narrow usize; the
\* allocator may fail at any call (last.j = 0)
PushReserve == PushWithin(MaxReserveElems)

\* bookkeeping of a call of the reserve family; last.preBank is the whole
\* bank as it was before the call
ReserveStep(op, additional, alloc_ok, r) ==
    /\ kind = "BankVec"
    /\ ~Borrowed
    /\ bank' = r.bank
    /\ last' = [op |-> op, i |-> additional, j |-> IF alloc_ok THEN 1 ELSE 0, v |-> None,
                ret |-> r.ret, refret |-> None,
                pre |-> as_slice(bank), preHeap |-> on_heap(bank), preCap |-> capacity(bank),
                preBank |-> bank]
    /\ undone' = NoOp
    /\ spills' = spills + (IF ~on_heap(bank) /\ on_heap(r.bank) THEN 1 ELSE 0)
    /\ pushOnly' = FALSE
    /\ drain' = NoDrain
    /\ UNCHANGED <<C, kind, arr, nextId, ref, ledger>>

Reserve ==
    \E additional \in 0..USIZE_MAX : \E alloc_ok \in BOOLEAN :
        ReserveStep("reserve", additional, alloc_ok, reserve(bank, additional, alloc_ok))

ReserveExact ==
    \E additional \in 0..USIZE_MAX : \E alloc_ok \in BOOLEAN :
        ReserveStep("reserve_exact", additional, alloc_ok,
                    reserve_exact(bank, additional, alloc_ok))

TryReserve ==
    \E additional \in 0..USIZE_MAX : \E alloc_ok \in BOOLEAN :
        ReserveStep("try_reserve", additional, alloc_ok,
                    try_reserve(bank, additional, alloc_ok))

TryReserveExact ==
    \E additional \in 0..USIZE_MAX : \E alloc_ok \in BOOLEAN :
        ReserveStep("try_reserve_exact", additional, alloc_ok,
                    try_reserve_exact(bank, additional, alloc_ok))

InitReserve == Init /\ kind = "BankVec"

NextReserve ==
    \/ PushReserve
    \/ Reserve
    \/ ReserveExact
    \/ TryReserve
    \/ TryReserveExact

SpecReserve == InitReserve /\ [][NextReserve]_vars

\* BankVec under push, pop and clone; last.clone is the bank clone returned
Clone ==
    /\ kind = "BankVec"
    /\ ~Borrowed
    /\ \E ub_crashes \in BOOLEAN :
          LET r == clone(bank, ub_crashes)
          IN  last' = [op |-> "clone", i |-> 0, j |-> IF ub_crashes THEN 1 ELSE 0, v |-> None,
                       ret |-> r.ret, refret |-> None,
                       pre |-> as_slice(bank), preHeap |-> on_heap(bank),
                       preCap |-> capacity(bank), preBank |-> bank, clone |-> r.bank]
    /\ undone' = NoOp
    /\ pushOnly' = FALSE
    /\ UNCHANGED <<C, kind, bank, arr, drain, nextId, ref, spills, ledger>>

InitClone == Init /\ kind = "BankVec"

NextClone ==
    \/ Push
    \/ Pop
    \/ Clone

SpecClone == InitClone /\ [][NextClone]_vars

\* the arrays, slices and Vecs a bank is compared with: the sequences of at
\* most n of the elements created so far
RECURSIVE SeqsUpTo(_)
SeqsUpTo(n) ==
    IF n = 0 THEN {<<>>}
    ELSE LET shorter == SeqsUpTo(n - 1)
         IN  shorter \cup {Append(t, e) : t \in shorter, e \in 1..(nextId - 1)}

\* BankVec under push, pop and ==; last.other is the sequence compared with,
\* last.eqSlice the result against it as array, slice or Vec, last.eqBank the
\* result against the BankVec made by pushing it onto new()
Eq ==
    /\ kind = "BankVec"
    /\ ~Borrowed
    /\ \E other \in SeqsUpTo(MaxEqLen) :
          LET otherBank == PushAll(new, other)
          IN  last' = [op |-> "eq", i |-> 0, j |-> 0, v |-> None, ret |-> None,
                       refret |-> None,
                       pre |-> as_slice(bank), preHeap |-> on_heap(bank),
                       preCap |-> capacity(bank), other |-> other,
                       otherHeap |-> on_heap(otherBank),
                       eqSlice |-> eq_slice(bank, other),
                       eqBank |-> eq_bank(bank, otherBank)]
    /\ undone' = NoOp
    /\ pushOnly' = FALSE
    /\ UNCHANGED <<C, kind, bank, arr, drain, nextId, ref, spills, ledger>>

InitEq == Init /\ kind = "BankVec"

NextEq ==
    \/ Push
    \/ Pop
    \/ Eq

SpecEq == InitEq /\ [][NextEq]_vars

\* BankVec under push, pop and insert, remove, swap_remove and indexing with
\* indices up to MaxOob past the end; a call that panics leaves last.ret =
\* PanicBounds
InsertAny ==
    /\ ~Borrowed
    /\ nextId <= MaxElems
    /\ \E index \in 0..(len(bank) + MaxOob) :
          LET r == insert_checked(bank, index, nextId)
          IN  Step("insert", index, 0, nextId, r,
                   IF r.ret = PanicBounds THEN ref ELSE RefInsert(ref, index, nextId), None)
    /\ nextId' = nextId + 1

RemoveAny ==
    /\ ~Borrowed
    /\ \E index \in 0..(len(bank) + MaxOob) :
          LET r == remove_checked(bank, index)
          IN  Step("remove", index, 0, None, r,
                   IF r.ret = PanicBounds THEN ref ELSE RefRemove(ref, index), None)
    /\ UNCHANGED nextId

SwapRemoveAny ==
    /\ ~Borrowed
    /\ \E index \in 0..(len(bank) + MaxOob) :
          LET r == swap_remove_checked(bank, index)
          IN  Step("swap_remove", index, 0, None, r,
                   IF r.ret = PanicBounds THEN ref ELSE RefSwapRemove(ref, index), None)
    /\ UNCHANGED nextId

IndexAny ==
    /\ ~Borrowed
    /\ \E index \in 0..(len(bank) + MaxOob) :
          Step("index", index, 0, None, index_checked(bank, index), ref, None)
    /\ UNCHANGED nextId

InitBounds == Init /\ kind = "BankVec"

NextBounds ==
    \/ Push
    \/ Pop
    \/ InsertAny
    \/ RemoveAny
    \/ SwapRemoveAny
    \/ IndexAny

SpecBounds == InitBounds /\ [][NextBounds]_vars

\* BankArr under push, try_push, insert and extend, also on a full bank, and pop
InitArr == Init /\ kind = "BankArr"

NextArr ==
    \/ ArrPushAny
    \/ ArrTryPushAny
    \/ ArrInsertAny
    \/ ArrExtendAny
    \/ ArrPop

SpecArr == InitArr /\ [][NextArr]_vars

\* the bounds handed to drain: every kind, at up to MaxRangeOob past the
\* length and at usize::MAX
RangeBoundsOf(length) ==
    {Unbounded} \cup {Included(n) : n \in (0..(length + MaxRangeOob)) \cup {USIZE_MAX}}
                \cup {Excluded(n) : n \in (0..(length + MaxRangeOob)) \cup {USIZE_MAX}}

\* BankVec under push, pop and drain(range) with any bounds; last.sb and
\* last.eb are the bounds handed in, last.preBank the bank before the call
DrainRange ==
    /\ kind = "BankVec"
    /\ ~Borrowed
    /\ \E sb \in RangeBoundsOf(len(bank)) : \E eb \in RangeBoundsOf(len(bank)) :
          LET r == drain_checked(bank, sb, eb)
          IN  /\ bank' = r.bank
              /\ drain' = [r.drain EXCEPT !.R = IF r.ret = None THEN ref ELSE <<>>]
              /\ last' = [op |-> "drain", i |-> r.drain.start, j |-> r.drain.end, v |-> None,
                          ret |-> r.ret, refret |-> None,
                          pre |-> as_slice(bank), preHeap |-> on_heap(bank),
                          preCap |-> capacity(bank), preBank |-> bank, sb |-> sb, eb |-> eb]
              /\ ref' = IF r.ret = None THEN Slice(ref, 0, r.drain.start) ELSE ref
    /\ undone' = NoOp
    /\ pushOnly' = FALSE
    /\ UNCHANGED <<C, kind, arr, nextId, spills, ledger>>

PushRange == PushWithin(MaxRangeElems)

InitRange == Init /\ kind = "BankVec"

NextRange ==
    \/ PushRange
    \/ Pop
    \/ DrainRange
    \/ DrainNext
    \/ DrainDrop

SpecRange == InitRange /\ [][NextRange]_vars

\* BankVec from construction to drop, with the ledger kept: the bank is made
\* by new(), from an array or from a Vec with some spare capacity, is driven
\* through its operations and its Drains, and is dropped
FromSources ==
    {[op |-> "new", n |-> 0, spare |-> 0]}
        \cup {[op |-> "from_array", n |-> n, spare |-> 0] : n \in 0..MaxLifeElems}
        \cup {[op |-> "from_vec", n |-> n, spare |-> sp] :
                 n \in 0..MaxLifeElems, sp \in 0..MaxVecSpare}

\* the bank a source makes of the elements 1..n
Made(src) ==
    CASE src.op = "from_array" -> from_array(Pushed(src.n))
      [] src.op = "from_vec" -> from_vec(Pushed(src.n), src.n + src.spare)
      [] OTHER -> [bank |-> new, ledger |-> NoLedger, ret |-> None]

InitLife ==
    /\ C \in 0..MaxLifeC
    /\ kind = "BankVec"
    /\ arr = arr_new
    /\ drain = NoDrain
    /\ undone = NoOp
    /\ pushOnly = FALSE
    /\ \E src \in FromSources :
          /\ Made(src).ret = None
          /\ bank = Made(src).bank
          /\ ledger = Made(src).ledger
          /\ nextId = src.n + 1
          /\ ref = Pushed(src.n)
          /\ spills = 0
          /\ last = [op |-> src.op, i |-> src.n, j |-> src.n + src.spare, ret |-> None,
                     preLedger |-> NoLedger]

\* bookkeeping shared by the operations of a behaviour with the ledger kept
\* (of the last operation the name, the arguments, the result and the ledger
\* before it are kept)
LifeStep(op, i, j, r, newdrain, newref, newledger) ==
    /\ kind = "BankVec"
    /\ ~ledger.dropped
    /\ bank' = r.bank
    /\ drain' = newdrain
    /\ last' = [op |-> op, i |-> i, j |-> j, ret |-> r.ret, preLedger |-> ledger]
    /\ undone' = NoOp
    /\ ref' = newref
    /\ spills' = spills + (IF ~on_heap(bank) /\ on_heap(r.bank) THEN 1 ELSE 0)
    /\ pushOnly' = FALSE
    /\ ledger' = newledger
    /\ UNCHANGED <<C, kind, arr>>

PushLife ==
    /\ ~Borrowed
    /\ nextId <= MaxLifeElems
    /\ LifeStep("push", 0, 0, push(bank, nextId), NoDrain, Append(ref, nextId),
                push_allocs(bank, ledger))
    /\ nextId' = nextId + 1

InsertLife ==
    /\ ~Borrowed
    /\ nextId <= MaxLifeElems
    /\ \E index \in 0..len(bank) :
          LifeStep("insert", index, 0, insert(bank, index, nextId), NoDrain,
                   RefInsert(ref, index, nextId), push_allocs(bank, ledger))
    /\ nextId' = nextId + 1

ExtendLife ==
    /\ ~Borrowed
    /\ \E n \in 1..MaxLifeExt :
          /\ nextId + n - 1 <= MaxLifeElems
          /\ LET items == [k \in 1..n |-> nextId + k - 1]
             IN  LifeStep("extend", n, 0, extend(bank, items), NoDrain, ref \o items,
                          extend_allocs(bank, items, ledger))
          /\ nextId' = nextId + n

PopLife ==
    /\ ~Borrowed
    /\ LET r == pop(bank)
       IN  LifeStep("pop", 0, 0, r, NoDrain,
                    IF ref = <<>> THEN ref ELSE Slice(ref, 0, Len(ref) - 1),
                    Hand(ledger, r.ret))
    /\ UNCHANGED nextId

RemoveLife ==
    /\ ~Borrowed
    /\ \E index \in 0..(len(bank) - 1) :
          LET r == remove(bank, index)
          IN  LifeStep("remove", index, 0, r, NoDrain, RefRemove(ref, index),
                       Hand(ledger, r.ret))
    /\ UNCHANGED nextId

SwapRemoveLife ==
    /\ ~Borrowed
    /\ \E index \in 0..(len(bank) - 1) :
          LET r == swap_remove(bank, index)
          IN  LifeStep("swap_remove", index, 0, r, NoDrain, RefSwapRemove(ref, index),
                       Hand(ledger, r.ret))
    /\ UNCHANGED nextId

\* reserve and reserve_exact with an allocator that succeeds; a call that
\* panics (the layout does not fit) made no allocator call
ReserveLife ==
    /\ ~Borrowed
    /\ \E additional \in 1..MaxLifeReserve :
          LET r == reserve(bank, additional, TRUE)
          IN  LifeStep("reserve", additional, 0, r, NoDrain, ref,
                       IF r.ret = None THEN reserve_allocs(bank, additional, ledger)
                       ELSE ledger)
    /\ UNCHANGED nextId

ReserveExactLife ==
    /\ ~Borrowed
    /\ \E additional \in 1..MaxLifeReserve :
          LET r == reserve_exact(bank, additional, TRUE)
          IN  LifeStep("reserve_exact", additional, 0, r, NoDrain, ref,
                       IF r.ret = None THEN reserve_exact_allocs(bank, additional, ledger)
                       ELSE ledger)
    /\ UNCHANGED nextId

DrainLife ==
    /\ ~Borrowed
    /\ \E start \in 0..len(bank) : \E end \in start..len(bank) :
          LET r == drain_new(bank, start, end)
          IN  LifeStep("drain", start, end, [bank |-> r.bank, ret |-> None],
                       [r.drain EXCEPT !.R = ref], Slice(ref, 0, start), ledger)
    /\ UNCHANGED nextId

DrainNextLife ==
    /\ Borrowed
    /\ LET r == drain_next(bank, drain)
       IN  LifeStep("next", 0, 0, [bank |-> bank, ret |-> r.ret], r.drain, ref,
                    Hand(ledger, r.ret))
    /\ UNCHANGED nextId

DrainNextBackLife ==
    /\ Borrowed
    /\ LET r == drain_next_back(bank, drain)
       IN  LifeStep("next_back", 0, 0, [bank |-> bank, ret |-> r.ret], r.drain, ref,
                    Hand(ledger, r.ret))
    /\ UNCHANGED nextId

DrainDropLife ==
    /\ Borrowed
    /\ LET r == drain_drop(bank, drain)
       IN  LifeStep("drain_drop", 0, 0, [bank |-> r.bank, ret |-> None], r.drain,
                    ref \o Slice(drain.R, drain.end, Len(drain.R)),
                    [ledger EXCEPT !.destroyed = @ \o r.drain.destroyed])
    /\ UNCHANGED nextId

\* mem::forget(drain): neither the elements the Drain still holds nor the
\* tail are ever destroyed
DrainForgetLife ==
    /\ Borrowed
    /\ LifeStep("drain_forget", 0, 0, [bank |-> bank, ret |-> None],
                [drain EXCEPT !.state = "leaked"], ref,
                [ledger EXCEPT !.leaked = @ \o Slice(Buf(bank, drain.ptr), drain.front, drain.back)
                                            \o Slice(Buf(bank, drain.ptr), drain.tail_start,
                                                     drain.tail_start + drain.tail_len)])
    /\ UNCHANGED nextId

\* the bank goes out of scope
DropLife ==
    /\ ~Borrowed
    /\ LifeStep("drop", 0, 0, [bank |-> bank, ret |-> None], NoDrain, ref, drop(bank, ledger))
    /\ UNCHANGED nextId

NextLife ==
    \/ PushLife
    \/ InsertLife
    \/ ExtendLife
    \/ PopLife
    \/ RemoveLife
    \/ SwapRemoveLife
    \/ DrainLife
    \/ DrainNextLife
    \/ DrainNextBackLife
    \/ DrainDropLife
    \/ DrainForgetLife
    \/ DropLife

SpecLife == InitLife /\ [][NextLife]_vars

\* clone of the bank; last.clone is the bank clone returned, which has its own
\* block and is not followed further
CloneLife ==
    /\ kind = "BankVec"
    /\ ~Borrowed
    /\ ~ledger.dropped
    /\ \E ub_crashes \in BOOLEAN :
          LET r == clone(bank, ub_crashes)
          IN  last' = [op |-> "clone", i |-> 0, j |-> IF ub_crashes THEN 1 ELSE 0,
                       ret |-> r.ret, preLedger |-> ledger, clone |-> r.bank]
    /\ undone' = NoOp
    /\ pushOnly' = FALSE
    /\ UNCHANGED <<C, kind, bank, arr, drain, nextId, ref, spills, ledger>>

\* BankVec under every safe operation: construction, push, insert, extend,
\* pop, remove, swap_remove, reserve, reserve_exact, drain and clone
NextAll ==
    \/ PushLife
    \/ InsertLife
    \/ ExtendLife
    \/ PopLife
    \/ RemoveLife
    \/ SwapRemoveLife
    \/ ReserveLife
    \/ ReserveExactLife
    \/ DrainLife
    \/ DrainNextLife
    \/ DrainNextBackLife
    \/ DrainDropLife
    \/ CloneLife

SpecAll == InitLife /\ [][NextAll]_vars

\* Drop for Drain unwinds from a destructor that panics
DrainDropUnwinds ==
    /\ Borrowed
    /\ \E k \in 1..drain_len(drain) :
          LET r == drain_drop_unwinds(bank, drain, k)
          IN  LifeStep("drain_drop", k, 0, [bank |-> r.bank, ret |-> PanicDrop], r.drain, ref,
                       [ledger EXCEPT !.destroyed = @ \o r.drain.destroyed])
    /\ UNCHANGED nextId

\* the bank is dropped and the destructor of one of its elements panics: the
\* drop glue of the slice goes on to destroy the other elements, the buffer of
\* the Vec made by from_raw_parts is freed while unwinding
DropPanics ==
    /\ ~Borrowed
    /\ len(bank) > 0
    /\ LifeStep("drop", 0, 0, [bank |-> bank, ret |-> PanicDrop], NoDrain, ref,
                drop(bank, ledger))
    /\ UNCHANGED nextId

\* BankVec under push, pop, drain and drop with destructors that may panic
NextPanic ==
    \/ PushLife
    \/ PopLife
    \/ DrainLife
    \/ DrainNextLife
    \/ DrainDropLife
    \/ DrainDropUnwinds
    \/ DropLife
    \/ DropPanics

SpecPanic == InitLife /\ [][NextPanic]_vars

\* try_grow(bank, new_cap) called as tests::try_grow_ calls it, with any
\* new_cap, while fewer than MaxGrowAllocs blocks were obtained; last.preBank
\* is the bank before the call
TryGrow ==
    /\ kind = "BankVec"
    /\ ~Borrowed
    /\ ~ledger.dropped
    /\ ledger.nalloc < MaxGrowAllocs
    /\ \E new_cap \in 0..MaxGrowCap :
          LET r == try_grow_result(bank, new_cap, TRUE)
          IN  /\ bank' = r.bank
              /\ last' = [op |-> "try_grow", i |-> new_cap, j |-> 0, ret |-> r.ret,
                          preLedger |-> ledger, preBank |-> bank]
              /\ ledger' = IF r.ret = None THEN try_grow_allocs(bank, new_cap, ledger)
                           ELSE ledger
              /\ spills' = spills + (IF ~on_heap(bank) /\ on_heap(r.bank) THEN 1 ELSE 0)
    /\ undone' = NoOp
    /\ pushOnly' = FALSE
    /\ UNCHANGED <<C, kind, arr, drain, nextId, ref>>

\* BankVec under push, pop and direct calls of try_grow
NextGrow ==
    \/ PushLife
    \/ PopLife
    \/ TryGrow
    \/ DropLife

SpecGrow == InitLife /\ [][NextGrow]_vars

\* try_reserve with an allocator that may fail: a call that returns an error
\* has obtained and released nothing
TryReserveLife ==
    /\ ~Borrowed
    /\ \E additional \in 1..MaxLifeReserve : \E alloc_ok \in BOOLEAN :
          LET r == try_reserve(bank, additional, alloc_ok)
          IN  LifeStep("try_reserve", additional, IF alloc_ok THEN 1 ELSE 0, r, NoDrain, ref,
                       IF r.ret = None THEN reserve_allocs(bank, additional, ledger)
                       ELSE ledger)
    /\ UNCHANGED nextId

\* BankVec from construction to drop under the operations that allocate:
\* push and the reserve family, with pop to make room
NextAlloc ==
    \/ PushLife
    \/ PopLife
    \/ ReserveLife
    \/ ReserveExactLife
    \/ TryReserveLife
    \/ DropLife

SpecAlloc == InitLife /\ [][NextAlloc]_vars

\* ----------------------------------------------------------------- claims
\* structural invariants of a bank: mode, lengths and initialized slots
BankInv(b) ==
    IF on_heap(b)
    THEN /\ Len(b.heap) = b.capacity
         /\ b.heap_len <= b.capacity
         /\ \A k \in 1..b.heap_len : b.heap[k] # Uninit
    ELSE /\ b.capacity <= C
         /\ Len(b.stack) = C
         /\ \A k \in 1..b.capacity : b.stack[k] # Uninit

\* the invariants of a BankArr: len within C, the live slots initialized
ArrInv(a) ==
    /\ a.len <= C
    /\ Len(a.data) = C
    /\ \A k \in 1..a.len : a.data[k] # Uninit

\* C1: from new(), the push that makes the element count C+1 is the one and
\* only inline->heap transition (inline before it, heap after it, no earlier
\* push changed the mode); afterwards len = C+1, capacity() >= C+1 and
\* as_slice holds the C+1 pushed values in push order.
C1_SpillOnPushCPlus1 ==
    (pushOnly /\ nextId - 1 = C + 1) =>
        /\ last.op = "push"
        /\ ~last.preHeap
        /\ on_heap(bank)
        /\ spills = 1
        /\ len(bank) = C + 1
        /\ capacity(bank) >= C + 1
        /\ as_slice(bank) = Pushed(C + 1)

C1_Witness ==
    /\ pushOnly
    /\ nextId - 1 = C + 1
    /\ on_heap(bank)
    /\ C = MaxC

\* C2: from new(), while the number of pushed elements is <= C, the bank is
\* never on the heap and capacity() = C after every push.
C2_InlineWhileWithinC ==
    (pushOnly /\ nextId - 1 <= C) =>
        /\ ~on_heap(bank)
        /\ capacity(bank) = C
        /\ spills = 0

C2_Witness ==
    /\ pushOnly
    /\ last.op = "push"
    /\ nextId - 1 = C
    /\ C = MaxC

\* the elements of a sequence, and whether none occurs twice
Elems(s) == {s[k] : k \in 1..Len(s)}
NoDup(s) == Cardinality(Elems(s)) = Len(s)

\* a sequence back to front
Reverse(s) == [k \in 1..Len(s) |-> s[Len(s) + 1 - k]]

\* C3: BankVec behaves like a plain growable sequence: after every push, pop,
\* insert, remove, swap_remove, extend and drain, len and as_slice equal those
\* of the reference sequence, every returned value equals the reference's, and
\* a Drain consumed from the front yields what the reference's drain yields;
\* for every C and in both modes.
C3_RefinesSequence ==
    /\ kind = "BankVec" => (len(bank) = Len(ref) /\ as_slice(bank) = ref)
    /\ last.op \in {"pop", "remove", "swap_remove"} => last.ret = last.refret
    /\ (drain.state = "dropped" /\ drain.destroyed = <<>> /\ drain.yielded_back = <<>>) =>
           drain.yielded_front = Slice(drain.R, drain.start, drain.end)

C3_Witness ==
    /\ last.op = "swap_remove"
    /\ last.preHeap
    /\ on_heap(bank)
    /\ len(bank) = C
    /\ last.i = 0
    /\ last.ret # None
    /\ as_slice(bank) # Slice(last.pre, 1, Len(last.pre))

\* the bank after popping until pop returns None, with the number of Some
RECURSIVE PopUntilNone(_, _)
PopUntilNone(b, n) ==
    LET r == pop(b)
    IN  IF r.ret = None THEN [bank |-> r.bank, count |-> n] ELSE PopUntilNone(r.bank, n + 1)

\* C4: pop on an empty bank returns None and leaves the bank unchanged; on a
\* non-empty bank it returns the last live element, len decreases by exactly
\* one and the other elements stay in place; popping until None empties the
\* bank (one element per call), in inline and in heap mode.
C4_Pop ==
    /\ last.op = "pop" =>
          IF last.pre = <<>>
          THEN /\ last.ret = None
               /\ as_slice(bank) = <<>>
               /\ on_heap(bank) = last.preHeap
               /\ capacity(bank) = last.preCap
          ELSE /\ last.ret = last.pre[Len(last.pre)]
               /\ len(bank) = Len(last.pre) - 1
               /\ as_slice(bank) = Slice(last.pre, 0, Len(last.pre) - 1)
    /\ ~Borrowed =>
          LET e == PopUntilNone(bank, 0)
          IN  /\ e.count = len(bank)
              /\ len(e.bank) = 0
              /\ as_slice(e.bank) = <<>>
              /\ on_heap(e.bank) = on_heap(bank)

C4_Witness ==
    /\ last.op = "pop"
    /\ last.ret # None
    /\ on_heap(bank)
    /\ len(bank) = 0

\* C5: insert(i, v) with i <= len immediately followed by remove(i) returns v
\* and restores the original elements and length, also when the insert grew
\* the bank or spilled it to the heap.
C5_InsertRemove ==
    undone.op = "insert" =>
        /\ last.op = "remove"
        /\ last.ret = undone.v
        /\ as_slice(bank) = undone.pre
        /\ len(bank) = Len(undone.pre)

C5_Witness ==
    /\ undone.op = "insert"
    /\ ~undone.preHeap
    /\ on_heap(bank)
    /\ undone.i = 0
    /\ Len(undone.pre) = C

\* C6: swap_remove(i) with i < len returns the element that was at i, puts
\* the former last element at i (nothing moves when i is the last index),
\* decreases len by one and leaves every other element at its index;
\* swap_remove(1) on [a,b,c,d] returns b and leaves [a,d,c].
C6_SwapRemove ==
    last.op = "swap_remove" =>
        LET P == last.pre
            n == Len(last.pre)
        IN  /\ last.i < n
            /\ last.ret = P[last.i + 1]
            /\ len(bank) = n - 1
            /\ \A k \in 0..(n - 2) :
                  as_slice(bank)[k + 1] = (IF k = last.i THEN P[n] ELSE P[k + 1])
            /\ (n = 4 /\ last.i = 1) => as_slice(bank) = <<P[1], P[4], P[3]>>

C6_Witness ==
    /\ last.op = "swap_remove"
    /\ last.pre = <<1, 2, 3, 4>>
    /\ last.i = 1
    /\ last.ret = 2
    /\ as_slice(bank) = <<1, 4, 3>>

\* C7: for a bank holding S and a valid range [start, end), a Drain consumed
\* to the end with next() yields exactly S[start..end) in order, and after its
\* drop the bank holds S[0..start) followed by S[end..), with
\* len = len(S) - (end - start); drain(..) yields all of S and empties the bank.
C7_DrainFullyConsumed ==
    (drain.state = "dropped" /\ drain.destroyed = <<>> /\ drain.yielded_back = <<>>) =>
        /\ drain.yielded_front = Slice(drain.S, drain.start, drain.end)
        /\ Live = Slice(drain.S, 0, drain.start)
                               \o Slice(drain.S, drain.end, Len(drain.S))
        /\ LiveLen = Len(drain.S) - (drain.end - drain.start)
        /\ (drain.start = 0 /\ drain.end = Len(drain.S)) =>
              (drain.yielded_front = drain.S /\ Live = <<>> /\ LiveLen = 0)

C7_Witness ==
    /\ drain.state = "dropped"
    /\ drain.destroyed = <<>>
    /\ drain.yielded_back = <<>>
    /\ Len(drain.yielded_front) = 1
    /\ drain.start = 1
    /\ drain.tail_len = 1
    /\ LiveLen = 2

\* C8: dropping a Drain after any number of next / next_back calls leaves the
\* bank equal to the head S[0..start) followed by the tail S[end..); every
\* element of the drained range was either yielded exactly once or destroyed
\* exactly once by the drop, never both, and no head or tail element was
\* yielded or destroyed.
C8_DrainDropAccounts ==
    drain.state = "dropped" =>
        LET out == drain.yielded_front \o drain.yielded_back \o drain.destroyed
        IN  /\ Live = Slice(drain.S, 0, drain.start)
                                   \o Slice(drain.S, drain.end, Len(drain.S))
            /\ Len(out) = drain.end - drain.start
            /\ NoDup(out)
            /\ Elems(out) = Elems(Slice(drain.S, drain.start, drain.end))
            /\ Elems(out) \cap Elems(Live) = {}

C8_Witness ==
    /\ drain.state = "dropped"
    /\ Len(drain.yielded_front) = 1
    /\ drain.yielded_back = <<>>
    /\ Len(drain.destroyed) = 1
    /\ drain.start = 0
    /\ drain.tail_len = 1
    /\ LiveLen = 1

\* C9: constructing a Drain over [start, end) sets the bank's length to start
\* before anything is yielded, and the length stays start until the Drain's
\* drop runs; a leaked Drain leaves a bank that satisfies its invariants and
\* exposes only S[0..start).
C9_DrainTruncatesAtOnce ==
    drain.state \in {"active", "leaked"} =>
        /\ LiveLen = drain.start
        /\ Live = Slice(drain.S, 0, drain.start)
        /\ IF kind = "BankArr" THEN ArrInv(arr) ELSE BankInv(bank)
        /\ last.op = "drain" =>
              (drain.yielded_front = <<>> /\ drain.yielded_back = <<>> /\ LiveLen = last.i)

C9_Witness ==
    /\ drain.state = "leaked"
    /\ drain.start = 1
    /\ drain.end = 2
    /\ Len(drain.S) = 3
    /\ Len(drain.yielded_front) = 1

\* C10: for any interleaving of next and next_back on a Drain over
\* [start, end): next yields the remaining elements from the front in
\* ascending order, next_back from the back in descending order, nothing is
\* yielded twice, at most end - start elements are yielded, the Drain's len is
\* the number not yet yielded, and on an exhausted range both return None.
C10_DrainInterleaving ==
    drain.state = "active" =>
        LET nf == Len(drain.yielded_front)
            nb == Len(drain.yielded_back)
            k == drain.end - drain.start
        IN  /\ nf + nb <= k
            /\ drain.yielded_front = Slice(drain.S, drain.start, drain.start + nf)
            /\ drain.yielded_back = Reverse(Slice(drain.S, drain.end - nb, drain.end))
            /\ NoDup(drain.yielded_front \o drain.yielded_back)
            /\ drain_len(drain) = k - (nf + nb)
            /\ last.op = "next" =>
                  IF last.i = k THEN last.ret = None /\ nf + nb = k
                  ELSE last.ret = drain.S[drain.start + nf] /\ nf + nb = last.i + 1
            /\ last.op = "next_back" =>
                  IF last.i = k THEN last.ret = None /\ nf + nb = k
                  ELSE last.ret = drain.S[drain.end - nb + 1] /\ nf + nb = last.i + 1

C10_Witness ==
    /\ drain.state = "active"
    /\ Len(drain.yielded_front) = 1
    /\ Len(drain.yielded_back) = 2
    /\ last.op = "next_back"
    /\ last.ret = None

\* C11: extend(items) appends every item in iteration order (contents become
\* old ++ items, len grows by the number of items); a bank that was inline
\* before the call moves to the heap at most once during the call, and does so
\* exactly when old len + number of items > C; a bank already on the heap
\* stays there.
C11_Extend ==
    last.op = "extend" =>
        LET items == [k \in 1..last.i |-> nextId - last.i + k - 1]
        IN  /\ as_slice(bank) = last.pre \o items
            /\ len(bank) = Len(last.pre) + last.i
            /\ last.j <= 1
            /\ ~last.preHeap => ((last.j = 1) <=> (Len(last.pre) + last.i > C))
            /\ ~last.preHeap => (on_heap(bank) <=> (Len(last.pre) + last.i > C))
            /\ last.preHeap => (last.j = 0 /\ on_heap(bank))

C11_Witness ==
    /\ last.op = "extend"
    /\ C = 4
    /\ last.pre = <<1, 2>>
    /\ last.i = 5
    /\ last.j = 1
    /\ as_slice(bank) = <<1, 2, 3, 4, 5, 6, 7>>

\* the errors of AllocErr, and whether a number is a power of two
AllocErrs == {ErrOverflow, ErrLayout, ErrAlloc}
IsPowerOfTwo(n) == \E k \in 0..UsizeBits : n = 2 ^ k

\* C12: reserve_exact(n) is a no-op when capacity() - len() >= n; otherwise
\* capacity() afterwards is exactly len() + n; in both cases len() and the
\* contents are unchanged.
C12_ReserveExact ==
    (last.op \in {"reserve_exact", "try_reserve_exact"} /\ last.ret = None) =>
        LET l == Len(last.pre)
        IN  /\ as_slice(bank) = last.pre
            /\ len(bank) = l
            /\ IF last.preCap - l >= last.i
               THEN bank = last.preBank
               ELSE capacity(bank) = l + last.i

C12_Witness ==
    /\ last.op = "reserve_exact"
    /\ last.ret = None
    /\ last.preHeap
    /\ Len(last.pre) = 2
    /\ capacity(bank) = 2 + last.i
    /\ capacity(bank) > last.preCap
    /\ ~IsPowerOfTwo(capacity(bank))

\* C13: after reserve(n), capacity() >= len() + n; reserve is a no-op when the
\* capacity is already sufficient; whenever it allocates, the new capacity is
\* the next power of two >= len() + n; len() and the contents are unchanged.
C13_Reserve ==
    (last.op \in {"reserve", "try_reserve"} /\ last.ret = None) =>
        LET l == Len(last.pre)
        IN  /\ as_slice(bank) = last.pre
            /\ len(bank) = l
            /\ capacity(bank) >= l + last.i
            /\ IF last.preCap - l >= last.i
               THEN bank = last.preBank
               ELSE /\ IsPowerOfTwo(capacity(bank))
                    /\ capacity(bank) \div 2 < l + last.i
                    /\ on_heap(bank)

C13_Witness ==
    /\ last.op = "reserve"
    /\ last.ret = None
    /\ ~last.preHeap
    /\ on_heap(bank)
    /\ Len(last.pre) = 2
    /\ capacity(bank) > 2 + last.i

\* C18: whenever try_reserve or try_reserve_exact returns an error (capacity
\* overflow, invalid layout or allocation failure), the bank is exactly as it
\* was before the call: mode, capacity field, length, contents and heap buffer.
C18_ErrorLeavesBankUnchanged ==
    (last.op \in {"try_reserve", "try_reserve_exact"} /\ last.ret \in AllocErrs) =>
        /\ bank = last.preBank
        /\ on_heap(bank) = last.preHeap
        /\ capacity(bank) = last.preCap
        /\ as_slice(bank) = last.pre

C18_Witness ==
    /\ last.op = "try_reserve"
    /\ last.ret = ErrAlloc
    /\ last.preHeap
    /\ Len(last.pre) = 2
    /\ bank = last.preBank

C14_CloneEqualSameMode ==
    last.op = "clone" =>
        /\ last.ret = None
        /\ len(last.clone) = len(bank)
        /\ as_slice(last.clone) = as_slice(bank)
        /\ on_heap(last.clone) = on_heap(bank)
        /\ bank = last.preBank

\* C15: equality of a BankVec with another BankVec, an array, a slice or a
\* Vec is true exactly when the lengths are equal and the elements pairwise
\* equal; it does not depend on mode or capacity.
C15_Equality ==
    last.op = "eq" =>
        LET same == as_slice(bank) = last.other
        IN  /\ last.eqSlice = same
            /\ last.eqBank = same
            /\ (Len(last.other) # len(bank)) => (~last.eqSlice /\ ~last.eqBank)

C15_Witness ==
    /\ last.op = "eq"
    /\ on_heap(bank)
    /\ ~last.otherHeap
    /\ Len(last.other) = 2
    /\ last.eqBank
    /\ last.eqSlice

C17_PopDropsBackInline ==
    (last.op = "pop" /\ last.preHeap /\ last.ret # None /\ len(bank) <= C) => ~on_heap(bank)

\* C20: in both modes insert(i, v) with i > len panics with "index out of
\* bounds", remove(i), swap_remove(i) and bank[i] with i >= len panic; none of
\* them returns a value, changes the elements or clamps the index; an index in
\* bounds does not panic.
C20_OutOfBoundsPanics ==
    last.op \in {"insert", "remove", "swap_remove", "index"} =>
        LET oob == IF last.op = "insert" THEN last.i > Len(last.pre)
                   ELSE last.i >= Len(last.pre)
        IN  IF oob
            THEN /\ last.ret = PanicBounds
                 /\ as_slice(bank) = last.pre
                 /\ len(bank) = Len(last.pre)
            ELSE last.ret # PanicBounds

C20_Witness ==
    /\ last.op = "remove"
    /\ last.preHeap
    /\ Len(last.pre) = 2
    /\ last.i = 2
    /\ last.ret = PanicBounds
    /\ as_slice(bank) = last.pre

\* C21: dropping a BankVec destroys exactly the elements of its live region
\* [0, len), each once and none that was handed out or destroyed before, and
\* frees the heap allocation, with the capacity it was obtained with, exactly
\* when the bank is in heap mode; an inline bank makes no allocator call.
C21_DropDestroysLiveRegion ==
    (last.op = "drop") =>
        /\ ledger.destroyed = last.preLedger.destroyed \o as_slice(bank)
        /\ NoDup(ledger.destroyed)
        /\ Elems(ledger.destroyed) \cap Elems(ledger.handed) = {}
        /\ ledger.handed = last.preLedger.handed
        /\ ledger.faults = last.preLedger.faults
        /\ ledger.nalloc = last.preLedger.nalloc
        /\ IF on_heap(bank)
           THEN /\ last.preLedger.live = <<[id |-> last.preLedger.ptr, cap |-> bank.capacity]>>
                /\ ledger.live = <<>>
           ELSE ledger.live = last.preLedger.live

\* a heap bank that had handed out an element and still held one was dropped
C21_Witness ==
    /\ last.op = "drop"
    /\ on_heap(bank)
    /\ len(bank) > 0
    /\ ledger.handed # <<>>
    /\ ledger.live = <<>>

\* the number of times e occurs in s
Count(s, e) == Cardinality({k \in 1..Len(s) : s[k] = e})

\* the number of places element e is at: in the bank's live region (until the
\* bank is dropped), with the caller, or destroyed
Places(e) ==
    (IF ledger.dropped THEN 0 ELSE Count(as_slice(bank), e))
        + Count(ledger.handed, e) + Count(ledger.destroyed, e)

\* C22: when an element's destructor panics while the bank is dropped or while
\* a Drain destroys the elements it was not asked for, every element is still
\* in exactly one place: none is leaked (the tail of the Drain included) and
\* none is destroyed twice.
C22_DestructorPanicLeaksNothing ==
    (last.ret = PanicDrop) => \A e \in 1..(nextId - 1) : Places(e) = 1

\* C23: drain(range) takes an unbounded start for 0, an unbounded end for
\* len and an included end e for e + 1, and panics when start > end or
\* end > len; a call that panics leaves the bank as it was and lends no Drain,
\* a call that returns has 0 <= start <= end <= len, truncates the bank to
\* start and drains [start, end).
C23_DrainRange ==
    (last.op = "drain" /\ "sb" \in DOMAIN last) =>
        LET l == Len(last.pre)
            start == IF last.sb.kind = "Unbounded" THEN 0 ELSE last.sb.at
            end == CASE last.eb.kind = "Unbounded" -> l
                     [] last.eb.kind = "Included" -> last.eb.at + 1
                     [] OTHER -> last.eb.at
        IN  /\ (last.sb.kind # "Excluded" /\ (start > end \/ end > l)) => last.ret # None
            /\ (last.ret # None) =>
                  /\ last.ret \in {PanicRangeOrder, PanicRangeEnd, PanicRangeMax, PanicUnreachable}
                  /\ bank = last.preBank
                  /\ as_slice(bank) = last.pre
                  /\ ~Borrowed
            /\ (last.ret = None) =>
                  /\ 0 <= start /\ start <= end /\ end <= l
                  /\ Borrowed
                  /\ drain.start = start /\ drain.end = end
                  /\ drain.tail_start = end /\ drain.tail_len = l - end
                  /\ as_slice(bank) = Slice(last.pre, 0, start)

\* drain(1..=len) on a heap bank with elements: the end is one past the length
C23_Witness ==
    /\ last.op = "drain" /\ "sb" \in DOMAIN last
    /\ last.ret = PanicRangeEnd
    /\ last.sb = Included(1)
    /\ last.eb = Included(len(bank))
    /\ on_heap(bank)
    /\ len(bank) >= 2

\* C24: BankVec::from of an array or a Vec of N elements makes a bank with
\* len() = N and the elements of the source in order, in heap mode exactly
\* when N > C; every element of the source is in the bank once and the
\* conversion has destroyed none.
C24_From ==
    (last.op \in {"from_array", "from_vec"}) =>
        /\ len(bank) = last.i
        /\ as_slice(bank) = Pushed(last.i)
        /\ on_heap(bank) <=> (last.i > C)
        /\ \A e \in 1..last.i : Places(e) = 1
        /\ ledger.destroyed = <<>>
        /\ ledger.handed = <<>>

\* a Vec with at most C elements and a capacity above C became an inline bank
C24_Witness ==
    /\ last.op = "from_vec"
    /\ last.i > 0
    /\ last.i <= C
    /\ last.j > C
    /\ ~on_heap(bank)
    /\ as_slice(bank) = Pushed(last.i)

\* the inline BankVec with the data and the length of BankArr a
InlineOf(a) == [capacity |-> a.len, stack |-> a.data, heap |-> <<>>, heap_len |-> 0]

ModeAndRegion(b) ==
    /\ on_heap(b) <=> (b.capacity > C)
    /\ len(b) <= capacity(b)
    /\ Len(as_slice(b)) = len(b)
    /\ \A k \in 1..len(b) : as_slice(b)[k] # Uninit
    /\ NoDup(as_slice(b))
    /\ IF on_heap(b)
       THEN /\ b.heap_len <= b.capacity
            /\ Len(b.heap) = b.capacity
            /\ capacity(b) = b.capacity
       ELSE /\ b.capacity = len(b)
            /\ b.capacity <= C
            /\ capacity(b) = C
            /\ Len(b.stack) = C
            /\ \A k \in 1..C : (b.stack[k] # Uninit /\ k > len(b)) =>
                                  \/ b.stack[k] \in Elems(as_slice(b))
                                  \/ b.stack[k] \in Elems(ledger.handed)
                                  \/ b.stack[k] \in Elems(ledger.destroyed)
                                  \/ Borrowed

\* C26: in every state reached by new, from, push, pop, insert, remove,
\* swap_remove, extend, reserve, reserve_exact, drain and clone, of the bank
\* and of the clone: on_heap() iff the capacity field is above C, len() <=
\* capacity(); inline, the capacity field is the length, at most C, capacity()
\* is C and the slots past the length hold no element of their own (they are
\* uninitialized or were moved out of); on the heap, the heap length is at
\* most the capacity field; as_slice() covers initialized slots only, and no
\* element that was handed out or destroyed.
C26_ModeAndRegionInvariants ==
    /\ ModeAndRegion(bank)
    /\ Elems(as_slice(bank)) \cap (Elems(ledger.handed) \cup Elems(ledger.destroyed)) = {}
    /\ (last.op = "clone" /\ last.ret = None) => ModeAndRegion(last.clone)

\* a heap bank with spare capacity, reallocated at least once, was cloned
\* into a heap bank
C26_Witness ==
    /\ last.op = "clone"
    /\ last.ret = None
    /\ on_heap(bank)
    /\ on_heap(last.clone)
    /\ len(bank) < capacity(bank)
    /\ ledger.nalloc >= 2
    /\ ledger.handed # <<>>

\* C27: a BankVec owns at most one block of the allocator, owns one exactly
\* when it is in heap mode, and the block has the capacity of the capacity
\* field; no block is released twice or with a capacity other than the one
\* it was obtained with (a buffer adopted from a Vec included), and once the
\* bank is dropped every block has been released.
C27_OneAllocation ==
    /\ ledger.faults = 0
    /\ Len(ledger.live) <= 1
    /\ ledger.dropped => ledger.live = <<>>
    /\ (~ledger.dropped) =>
          IF on_heap(bank)
          THEN ledger.live = <<[id |-> ledger.ptr, cap |-> bank.capacity]>>
          ELSE ledger.live = <<>>

\* a bank that was reallocated and then dropped from heap mode
C27_Witness ==
    /\ last.op = "drop"
    /\ on_heap(bank)
    /\ ledger.nalloc >= 2
    /\ last.preLedger.live = <<[id |-> ledger.nalloc, cap |-> bank.capacity]>>
    /\ ledger.live = <<>>
    /\ ledger.faults = 0

\* C28: try_grow(bank, new_cap) on a heap bank with len <= new_cap <= C makes
\* the bank inline with the capacity field at the length it had, whatever
\* new_cap is: len() and the contents are those from before the call and the
\* heap block was freed once; on an inline bank with new_cap <= C it changes
\* nothing.
C28_TryGrowBackInline ==
    (last.op = "try_grow" /\ last.ret = None /\ last.i <= C) =>
        IF on_heap(last.preBank)
        THEN /\ ~on_heap(bank)
             /\ bank.capacity = len(last.preBank)
             /\ len(bank) = len(last.preBank)
             /\ as_slice(bank) = as_slice(last.preBank)
             /\ last.preLedger.live # <<>>
             /\ ledger.live = <<>>
             /\ ledger.faults = 0
        ELSE /\ bank = last.preBank
             /\ ledger = last.preLedger

\* C29: insert(i, v) with i > len panics before it grows or spills the bank:
\* after the panic the length, the elements, the mode (on_heap()) and
\* capacity() are those from before the call, also when the bank was at
\* capacity (len == capacity(), e.g. a full inline bank).
C29_OobInsertLeavesBankUnchanged ==
    (last.op = "insert" /\ last.ret = PanicBounds) =>
        /\ len(bank) = Len(last.pre)
        /\ as_slice(bank) = last.pre
        /\ on_heap(bank) = last.preHeap
        /\ capacity(bank) = last.preCap

\* the elements an active Drain holds: the part of the range it has not
\* yielded and the tail it will move back
Held ==
    IF Borrowed
    THEN Slice(Buf(bank, drain.ptr), drain.front, drain.back)
            \o Slice(Buf(bank, drain.ptr), drain.tail_start, drain.tail_start + drain.tail_len)
    ELSE <<>>

\* C30: every element that entered the bank (from, push, insert, extend) is
\* at every moment in exactly one place - in the bank, held by the Drain that
\* borrows the bank, handed to the caller, destroyed, or lost with a Drain
\* that was forgotten - and once the bank is dropped, with no Drain forgotten,
\* every element was either handed to the caller once or destroyed once, and
\* never both; across inline -> heap moves and reallocations.
C30_ElementConservation ==
    /\ \A e \in 1..(nextId - 1) :
          Places(e) + Count(Held, e) + Count(ledger.leaked, e) = 1
    /\ (ledger.dropped /\ ledger.leaked = <<>>) =>
          /\ Elems(ledger.handed) \cup Elems(ledger.destroyed) = 1..(nextId - 1)
          /\ Elems(ledger.handed) \cap Elems(ledger.destroyed) = {}
          /\ NoDup(ledger.handed \o ledger.destroyed)

C30_Witness ==
    /\ ledger.dropped
    /\ ledger.leaked = <<>>
    /\ spills >= 1
    /\ ledger.nalloc >= 2
    /\ ledger.handed # <<>>
    /\ ledger.destroyed # <<>>
    /\ nextId - 1 = Len(ledger.handed) + Len(ledger.destroyed)

====
